---- MODULE Spec2Model ----
(***************************************************************************)
(* Model of the VS1053 decoder driver of rustdio (src/src/vs1053.rs).      *)
(*                                                                         *)
(* The driver is a set of synchronous, blocking methods of one struct.     *)
(* Every method is modelled as a sequence of small steps of a thread: a    *)
(* thread owns a call stack of frames [fn, pc, a] (the method, the point   *)
(* it has reached, its arguments and locals) and a return register rv.     *)
(* One step is one hardware operation (drive a select line, one SPI        *)
(* transaction, one sample of the data-ready line with the sleep that      *)
(* follows a low one) or one piece of control flow (a call, a `?`, a       *)
(* return).  The hardware is the environment: every hardware operation     *)
(* draws its outcome (success or fault) with \E.                           *)
(***************************************************************************)
EXTENDS Integers, Sequences, FiniteSets, TLC

VARIABLES
    xcs_pin,          \* level of the command-select line: TRUE = high (released)
    xdcs_pin,         \* level of the data-select line:    TRUE = high (released)
    hal,              \* what the HAL of the build does to a line around a PinDriver
    current_volume,   \* VS1053::current_volume (u8)
    current_balance,  \* VS1053::current_balance (i8)
    stack,            \* per thread: the call stack, a sequence of frames
    rv,               \* per thread: the value the last returned callee left
    panicked,         \* an expect() met an Err: the process is gone
    call,             \* per thread: the public call in progress (or the last one)
    hw,               \* per thread: what that call has done to the hardware so far
    rop,              \* per thread: the register-level operation in progress
    aw,               \* per thread: the ready-wait in progress (polls, sleeps)
    lastSpi           \* the last SPI transaction, with the select lines as they were

vars == <<xcs_pin, xdcs_pin, hal, current_volume, current_balance, stack, rv,
          panicked, call, hw, rop, aw, lastSpi>>

pins   == <<xcs_pin, xdcs_pin, hal>>
fields == <<current_volume, current_balance>>

(***************************************************************************)
(* Bounds of the model                                                     *)
(***************************************************************************)
MaxLen   == 4      \* longest buffer handed to the streaming calls
MaxChunk == 3      \* largest chunk_size handed to play_chunk2
FlushLen == 33     \* filler bytes of a flush of stop_song (2052 in the source)
BurstLen == 1      \* filler bytes of a burst of stop_song (32 in the source)
PollLen  == 1      \* last turn of a ready-wait made inside another call (2000 in the source)

(***************************************************************************)
(* Program constants                                                       *)
(***************************************************************************)
VS1053_CHUNK_SIZE == 32
SCI_MODE     == 0
SCI_STATUS   == 1
SCI_BASS     == 2
SCI_WRAM     == 6
SCI_WRAMADDR == 7
SCI_VOL      == 11
DREQ_LAST_POLL == 2000   \* for _i in 0..=2000
SCI_CLOCKF   == 3
SCI_AUDATA   == 5
SCI_NUM_REGISTERS == 15
SM_SDINEW    == 11
SM_CANCEL    == 3
SM_RESET     == 2
ADDR_REG_GPIO_DDR_RW   == 49175
ADDR_REG_GPIO_ODATA_RW == 49177
SM_LINE1     == 14
SWEEP_END    == 65535    \* for i in (0..0xFFFF)
SLOW_DELTA   == 300      \* let mut delta: usize = 300
FAST_DELTA   == 3        \* delta = 3
MAX_BAD_STEPS == 20      \* if cnt >= 20 { break; }
AUDATA_44K1_STEREO == 44101
END_FILL_BYTE == 7686    \* 0x1E06
STOP_LAST_POLL == 200    \* for i in 0..=200

\* the decoder is a local of main: main is the one thread that calls it
MainThread == "main"
Threads    == {MainThread}

\* firmware that shares the decoder between the main thread and a second
\* one, the handler of the HTTP requests
SharedThreads == {MainThread, "http"}

(***************************************************************************)
(* Result<T, DSPError>                                                     *)
(***************************************************************************)
\* a bool returned by a method
Bool(b) == IF b THEN 1 ELSE 0

Ok(v)    == [ok |-> TRUE,  val |-> v, err |-> "none"]
Err(e)   == [ok |-> FALSE, val |-> 0, err |-> e]
NoResult == [ok |-> FALSE, val |-> 0, err |-> "pending"]

DSPError == {"Spi", "UnableToSetCSPin", "UnableToSetDCSPin",
             "UnableToGetDREQPin", "DataRequestTimeout"}

(***************************************************************************)
(* Frames and the call stack                                               *)
(***************************************************************************)
Frame(fn, pc, a) == [fn |-> fn, pc |-> pc, a |-> a]
NoArgs == [none |-> 0]

Running(t) == stack[t] # <<>>
Top(t)     == stack[t][Len(stack[t])]
At(t, fn, pc) == /\ ~panicked
                 /\ Running(t)
                 /\ Top(t).fn = fn
                 /\ Top(t).pc = pc

\* stay in the frame: move to pc, replace the locals, leave r in the return register
JumpL(t, pc, a, r) ==
    /\ stack' = [stack EXCEPT ![t] = [@ EXCEPT ![Len(@)] = Frame(@.fn, pc, a)]]
    /\ rv' = [rv EXCEPT ![t] = r]
    /\ UNCHANGED call
Jump(t, pc, r) == JumpL(t, pc, Top(t).a, r)
Goto(t, pc)    == JumpL(t, pc, Top(t).a, rv[t])
GotoL(t, pc, a) == JumpL(t, pc, a, rv[t])

\* call fn: the caller resumes at retpc when the callee returns
CallL(t, retpc, a, fn, pc0, args) ==
    /\ stack' = [stack EXCEPT ![t] =
                    Append([@ EXCEPT ![Len(@)] = Frame(@.fn, retpc, a)],
                           Frame(fn, pc0, args))]
    /\ UNCHANGED <<rv, call>>
CallFn(t, retpc, fn, pc0, args) == CallL(t, retpc, Top(t).a, fn, pc0, args)

\* return r to the caller; the return of the outermost frame ends the public call
Ret(t, r) ==
    /\ stack' = [stack EXCEPT ![t] = SubSeq(@, 1, Len(@) - 1)]
    /\ rv' = [rv EXCEPT ![t] = r]
    /\ call' = IF Len(stack[t]) = 1
                 THEN [call EXCEPT ![t].done = TRUE, ![t].res = r]
                 ELSE call

\* expect() on an Err: panic
Panic(t) ==
    /\ panicked' = TRUE
    /\ UNCHANGED <<stack, rv, call>>

(***************************************************************************)
(* What a call has done to the hardware (history kept for the properties)  *)
(*   nspi   : its SPI transactions, counted 0, 1, 2 (= two or more)         *)
(*   sel    : the select lines it has driven low (set_low returned Ok)      *)
(*   held   : of these, the lines it has not driven high since (no set_high *)
(*            has returned Ok after the set_low)                            *)
(*   tc     : the self-tests it has run: for each, whether data-ready read  *)
(*            low at entry, the bad steps counted, whether the test passed  *)
(*   path   : the steps of begin's fast path it has reached                 *)
(*   writes : the register-write frames it has put on a bus, in order       *)
(*   chunks : the data chunks it has put on the bus, in order; a buffer of  *)
(*            MaxLen bytes makes at most MaxLen chunks of one byte or more, *)
(*            and of the chunks beyond that number only the first is kept   *)
(***************************************************************************)
HwInit == [nspi |-> 0, faults |-> {}, sel |-> {}, held |-> {}, chunks |-> <<>>,
           lastBus |-> "none", lastHw |-> "none", spiAfterPinFault |-> FALSE,
           tc |-> <<>>, path |-> {}, writes |-> <<>>]
RopInit(fn) == [fn |-> fn, nspi |-> 0, nwait |-> 0]
AwInit == [done |-> FALSE, res |-> NoResult, polls |-> 0, sleeps |-> 0, highs |-> 0]
NoSpi  == [ok |-> FALSE, kind |-> "none", bus |-> "none", frame |-> <<>>, nread |-> 0,
           xcs |-> TRUE, xdcs |-> TRUE, prevBus |-> "none", waits |-> 0,
           by |-> "none", top |-> "none"]

\* The operations made of hundreds of register accesses.  Of their faults
\* only the occurrence is kept ("fault"), not the kinds, and the select
\* lines they asserted and the last event on the bus are not kept.
Composite == {"begin", "test_comm", "stop_song"}

\* set_volume is called for every volume and balance: of what such a call
\* has done to the hardware nothing is kept but the last event on the bus
\* and the last transaction (lastSpi)
Kept(t, h) ==
    IF call[t].fn = "set_volume" THEN [HwInit EXCEPT !.lastBus = h.lastBus]
    ELSE IF call[t].fn \in Composite
      THEN [h EXCEPT !.faults = IF @ = {} THEN {} ELSE {"fault"},
                     !.sel = {},
                     !.held = {},
                     !.lastBus = "none",
                     !.spiAfterPinFault = FALSE,
                     !.writes = <<>>]
      ELSE h

NotePin(h, line, is_high, o) ==
    [h EXCEPT !.faults = IF o = "ok" THEN @ ELSE @ \cup {"pin"},
              !.sel    = IF o = "ok" /\ ~is_high THEN @ \cup {line} ELSE @,
              !.held   = IF o # "ok" THEN @
                         ELSE IF is_high THEN @ \ {line} ELSE @ \cup {line},
              !.lastHw = "pin"]
NoteSpi(h, kind, frame, ok) ==
    [h EXCEPT !.nspi    = IF @ < 2 THEN @ + 1 ELSE @,
              !.faults  = IF ok THEN @ ELSE @ \cup {"spi"},
              !.chunks  = IF kind = "data" /\ Len(@) <= MaxLen
                            THEN Append(@, frame) ELSE @,
              !.writes  = IF kind = "write" THEN Append(@, frame) ELSE @,
              !.lastBus = IF ok THEN "spi_ok" ELSE "spi_fail",
              !.lastHw  = IF ok THEN "spi_ok" ELSE "spi_fail",
              !.spiAfterPinFault = @ \/ "pin" \in h.faults]
NoteWait(h, r) ==
    LET e == IF r.ok THEN "wait_ok"
             ELSE IF r.err = "DataRequestTimeout" THEN "wait_timeout"
             ELSE "wait_nopin"
    IN [h EXCEPT !.faults  = IF r.ok THEN @
                             ELSE IF r.err = "DataRequestTimeout" THEN @ \cup {"timeout"}
                             ELSE @ \cup {"dreq"},
                 !.lastBus = e,
                 !.lastHw  = e]

(***************************************************************************)
(* Pin gate: set_cs_pin / set_dcs_pin                                      *)
(*                                                                         *)
(* Each call makes a PinDriver for the pin (PinDriver::output), sets the   *)
(* level and returns, and the PinDriver, a local of the function, is       *)
(* dropped at the return.  What the hardware does with the operation:      *)
(*   "ok"  : the pin is acquired and its level is set                      *)
(*   "acq" : PinDriver::output fails: Err(UnableToSet..Pin)                *)
(*   "lvl" : set_high / set_low fails: the error is dropped (let _ =)      *)
(*           and the call reports Ok                                       *)
(* The Result is the driver's.  The level of the line once the function    *)
(* has returned is not: it is what the HAL makes of acquiring a pin and    *)
(* of dropping its PinDriver, and the HAL is a dependency, the same one    *)
(* for every operation of a build:                                         *)
(*   "keep"    : a line stays at the level it was last set to              *)
(*   "release" : dropping the PinDriver releases the pin: the line is      *)
(*               back high whatever level was set                          *)
(*   "reset"   : PinDriver::output resets the pin before anything else,    *)
(*               also when it then fails: the line is high unless          *)
(*               set_low succeeds, and then stays                          *)
(***************************************************************************)
PinOutcomes == {"ok", "acq", "lvl"}

HalBehaviours == {"keep", "release", "reset"}

\* the level of a line after set_cs_pin / set_dcs_pin has returned
PinLevel(old, is_high, o) ==
    IF hal = "keep" THEN (IF o = "ok" THEN is_high ELSE old)
    ELSE IF hal = "release" THEN (IF o = "acq" THEN old ELSE TRUE)
    ELSE (IF o = "ok" THEN is_high ELSE TRUE)

set_cs_pin_result(o)  == IF o = "acq" THEN Err("UnableToSetCSPin")  ELSE Ok(0)
set_dcs_pin_result(o) == IF o = "acq" THEN Err("UnableToSetDCSPin") ELSE Ok(0)

set_cs_pin(t, is_high, o) ==
    /\ xcs_pin' = PinLevel(xcs_pin, is_high, o)
    /\ hw' = [hw EXCEPT ![t] = Kept(t, NotePin(@, "xcs", is_high, o))]
    /\ UNCHANGED <<xdcs_pin, hal, fields, panicked, rop, aw, lastSpi>>

set_dcs_pin(t, is_high, o) ==
    /\ xdcs_pin' = PinLevel(xdcs_pin, is_high, o)
    /\ hw' = [hw EXCEPT ![t] = Kept(t, NotePin(@, "xdcs", is_high, o))]
    /\ UNCHANGED <<xcs_pin, hal, fields, panicked, rop, aw, lastSpi>>

\* a step that touches no hardware and no field of the driver
Pure == UNCHANGED <<pins, fields, panicked, hw, rop, aw, lastSpi>>

\* faulty variant: command mode entered without releasing data-select
control_mode_on_dcs_kept(t) ==
    \/ /\ At(t, "control_mode_on", "set_dcs")
       /\ Goto(t, "set_cs")
       /\ Pure
    \/ /\ At(t, "control_mode_on", "set_cs")
       /\ \E o \in PinOutcomes:
            /\ set_cs_pin(t, FALSE, o)
            /\ Ret(t, set_cs_pin_result(o))

\* self.set_dcs_pin(true)?; self.set_cs_pin(false)
control_mode_on(t) ==
    \/ /\ At(t, "control_mode_on", "set_dcs")
       /\ \E o \in PinOutcomes:
            /\ set_dcs_pin(t, TRUE, o)
            /\ IF set_dcs_pin_result(o).ok
                 THEN Goto(t, "set_cs")
                 ELSE Ret(t, set_dcs_pin_result(o))
    \/ /\ At(t, "control_mode_on", "set_cs")
       /\ \E o \in PinOutcomes:
            /\ set_cs_pin(t, FALSE, o)
            /\ Ret(t, set_cs_pin_result(o))

control_mode_off(t) ==
    /\ At(t, "control_mode_off", "set_cs")
    /\ \E o \in PinOutcomes:
         /\ set_cs_pin(t, TRUE, o)
         /\ Ret(t, set_cs_pin_result(o))

data_mode_on(t) ==
    \/ /\ At(t, "data_mode_on", "set_cs")
       /\ \E o \in PinOutcomes:
            /\ set_cs_pin(t, TRUE, o)
            /\ IF set_cs_pin_result(o).ok
                 THEN Goto(t, "set_dcs")
                 ELSE Ret(t, set_cs_pin_result(o))
    \/ /\ At(t, "data_mode_on", "set_dcs")
       /\ \E o \in PinOutcomes:
            /\ set_dcs_pin(t, FALSE, o)
            /\ Ret(t, set_dcs_pin_result(o))

data_mode_off(t) ==
    /\ At(t, "data_mode_off", "set_dcs")
    /\ \E o \in PinOutcomes:
         /\ set_dcs_pin(t, TRUE, o)
         /\ Ret(t, set_dcs_pin_result(o))

(***************************************************************************)
(* Data-ready monitor: await_data_request                                  *)
(***************************************************************************)
NoteAwait(t, r) ==
    /\ hw' = [hw EXCEPT ![t] = Kept(t, NoteWait(@, r))]
    /\ rop' = [rop EXCEPT ![t].nwait = IF r.ok THEN @ + 1 ELSE @]

\* the samples and the sleeps of a wait are counted for a call of
\* await_data_request on its own, not for the waits inside another call
AwKept(t, a) == IF call[t].fn = "await_data_request" THEN a ELSE AwInit

\* PinDriver::input(&mut self.dreq_pin)
await_data_request_input(t) ==
    /\ At(t, "await_data_request", "start")
    /\ \E acquired \in BOOLEAN:
         IF acquired
           THEN /\ GotoL(t, "poll", [i |-> 0])
                /\ UNCHANGED <<hw, rop>>
           ELSE /\ NoteAwait(t, Err("UnableToGetDREQPin"))
                /\ Ret(t, Err("UnableToGetDREQPin"))
    /\ aw' = [aw EXCEPT ![t] = AwInit]
    /\ UNCHANGED <<pins, fields, panicked, lastSpi>>

\* the last turn of the loop  for _i in 0..=2000.  A call of
\* await_data_request on its own runs all 2001 turns; in the waits made
\* inside another call the turns 0..=PollLen stand for them
last_poll(t) == IF call[t].fn = "await_data_request" THEN DREQ_LAST_POLL ELSE PollLen

\* does the loop  for _i in 0..=2000  run its body for this i
await_in_range(t, i) == i <= last_poll(t)

\* faulty variant: the test of the sample inverted
poll_returns_inverted(is_high) == ~is_high

\* if !dreq.is_high() { sleep } else { return Ok(()) }: does this sample end the wait
poll_returns(is_high) == is_high

\* one turn of the loop: sample the line; not ready: sleep 1 ms and go on
await_data_request_poll(t) ==
    /\ At(t, "await_data_request", "poll")
    /\ LET i == Top(t).a.i IN
       IF await_in_range(t, i)
         THEN \E is_high \in BOOLEAN:
                LET sampled == [aw[t] EXCEPT !.polls = @ + 1,
                                             !.highs = IF is_high THEN @ + 1 ELSE @]
                IN IF poll_returns(is_high)
                     THEN /\ aw' = [aw EXCEPT ![t] =
                                        AwKept(t, [sampled EXCEPT !.done = TRUE,
                                                                  !.res = Ok(0)])]
                          /\ NoteAwait(t, Ok(0))
                          /\ Ret(t, Ok(0))
                     ELSE /\ aw' = [aw EXCEPT ![t] =
                                        AwKept(t, [sampled EXCEPT !.sleeps = @ + 1])]
                          /\ GotoL(t, "poll", [i |-> i + 1])
                          /\ UNCHANGED <<hw, rop>>
         ELSE /\ aw' = [aw EXCEPT ![t] =
                            AwKept(t, [@ EXCEPT !.done = TRUE,
                                                !.res = Err("DataRequestTimeout")])]
              /\ NoteAwait(t, Err("DataRequestTimeout"))
              /\ Ret(t, Err("DataRequestTimeout"))
    /\ UNCHANGED <<pins, fields, panicked, lastSpi>>

(***************************************************************************)
(* SPI: one SpiDevice::transaction on one of the two bus handles           *)
(***************************************************************************)
\* faulty variant: the bus failure reported under the wrong error
spi_result_as_timeout(ok, v) == IF ok THEN Ok(v) ELSE Err("DataRequestTimeout")

\* transaction(..).map_err(|_| DSPError::Spi)
spi_result(ok, v) == IF ok THEN Ok(v) ELSE Err("Spi")

\* faulty variant: the first byte taken as the low byte
u16_from_le_bytes(buf) == buf[2] * 256 + buf[1]

\* u16::from_be_bytes(buf)
u16_from_be_bytes(buf) == buf[1] * 256 + buf[2]

\* the two bytes the chip clocks out in answer to a read frame
\* (0x0000, 0xFFFF, 0x0040, 0x0808, and the sweep values 3 and 300)
ReadResponses == {<<0, 0>>, <<255, 255>>, <<0, 64>>, <<8, 8>>, <<0, 3>>, <<1, 44>>}

transaction(t, kind, bus, frame, nread, ok) ==
    /\ lastSpi' = [ok |-> ok, kind |-> kind, bus |-> bus, frame |-> frame,
                   nread |-> nread, xcs |-> xcs_pin, xdcs |-> xdcs_pin,
                   prevBus |-> hw[t].lastBus, waits |-> rop[t].nwait,
                   by |-> t, top |-> call[t].fn]
    /\ hw' = [hw EXCEPT ![t] = Kept(t, NoteSpi(@, kind, frame, ok))]
    /\ rop' = [rop EXCEPT ![t].nspi = @ + 1]
    /\ UNCHANGED <<pins, fields, panicked, aw>>

(***************************************************************************)
(* Register access protocol: read_register / write_register / write_bytes  *)
(***************************************************************************)
read_register(t) ==
    \* self.control_mode_on()?;
    \/ /\ At(t, "read_register", "start")
       /\ CallFn(t, "cmo_ret", "control_mode_on", "set_dcs", NoArgs)
       /\ rop' = [rop EXCEPT ![t] = RopInit("read_register")]
       /\ UNCHANGED <<pins, fields, panicked, hw, aw, lastSpi>>
    \* self.spi.transaction([Write(&[0x3, address]), Read(&mut buf)])
    \/ /\ At(t, "read_register", "cmo_ret")
       /\ IF rv[t].ok
            THEN \E ok \in BOOLEAN, resp \in ReadResponses:
                   /\ transaction(t, "read", "spi", <<3, Top(t).a.address>>, 2, ok)
                   /\ JumpL(t, "spi_ret",
                            [Top(t).a EXCEPT !.buf = IF ok THEN resp ELSE @],
                            spi_result(ok, 0))
            ELSE Ret(t, rv[t]) /\ Pure
    \* ..?; self.await_data_request()?;
    \/ /\ At(t, "read_register", "spi_ret")
       /\ IF rv[t].ok
            THEN CallFn(t, "await_ret", "await_data_request", "start", NoArgs)
            ELSE Ret(t, rv[t])
       /\ Pure
    \* ..?; self.control_mode_off()?;
    \/ /\ At(t, "read_register", "await_ret")
       /\ IF rv[t].ok
            THEN CallFn(t, "cmoff_ret", "control_mode_off", "set_cs", NoArgs)
            ELSE Ret(t, rv[t])
       /\ Pure
    \* ..?; Ok(u16::from_be_bytes(buf))
    \/ /\ At(t, "read_register", "cmoff_ret")
       /\ IF rv[t].ok
            THEN Ret(t, Ok(u16_from_be_bytes(Top(t).a.buf)))
            ELSE Ret(t, rv[t])
       /\ Pure

read_register_args(address) == [buf |-> <<0, 0>>, address |-> address]

\* let lsb = (value & 0xFF) as u8; let msb = (value >> 8) as u8;
write_frame(reg, value) == <<2, reg, (value \div 256) % 256, value % 256>>

\* faulty variant: the fast bus whatever speed is asked for
write_bus_always_fast(is_high_speed) == "spi"

\* if is_high_speed { self.spi } else { self.low_spi }
write_bus(is_high_speed) == IF is_high_speed THEN "spi" ELSE "low_spi"

\* faulty variant: the ready-wait after the frame left out
write_register_await_skipped(t) ==
    /\ At(t, "write_register", "spi_ret")
    /\ IF rv[t].ok
         THEN CallFn(t, "cmoff_ret", "control_mode_off", "set_cs", NoArgs)
         ELSE Ret(t, rv[t])
    /\ Pure

\* ..?; self.await_data_request()?;
write_register_await(t) ==
    /\ At(t, "write_register", "spi_ret")
    /\ IF rv[t].ok
         THEN CallFn(t, "await_ret", "await_data_request", "start", NoArgs)
         ELSE Ret(t, rv[t])
    /\ Pure

write_register(t) ==
    \* self.control_mode_on()?;
    \/ /\ At(t, "write_register", "start")
       /\ CallFn(t, "cmo_ret", "control_mode_on", "set_dcs", NoArgs)
       /\ rop' = [rop EXCEPT ![t] = RopInit("write_register")]
       /\ UNCHANGED <<pins, fields, panicked, hw, aw, lastSpi>>
    \* ..?; <bus>.transaction([Write(&[0x2, reg, msb, lsb])])
    \/ /\ At(t, "write_register", "cmo_ret")
       /\ IF rv[t].ok
            THEN \E ok \in BOOLEAN:
                   /\ transaction(t, "write", write_bus(Top(t).a.is_high_speed),
                                  write_frame(Top(t).a.reg, Top(t).a.value), 0, ok)
                   /\ Jump(t, "spi_ret", spi_result(ok, 0))
            ELSE Ret(t, rv[t]) /\ Pure
    \/ write_register_await(t)
    \* ..?; self.control_mode_off()?;
    \/ /\ At(t, "write_register", "await_ret")
       /\ IF rv[t].ok
            THEN CallFn(t, "cmoff_ret", "control_mode_off", "set_cs", NoArgs)
            ELSE Ret(t, rv[t])
       /\ Pure
    \* ..?; Ok(())
    \/ /\ At(t, "write_register", "cmoff_ret")
       /\ IF rv[t].ok THEN Ret(t, Ok(0)) ELSE Ret(t, rv[t])
       /\ Pure

write_register_args(is_high_speed, reg, value) ==
    [reg |-> reg, value |-> value, is_high_speed |-> is_high_speed]

\* write_bytes(data): the same bracket around one Write(data) on the fast bus
write_bytes(t) ==
    \* self.control_mode_on()?;
    \/ /\ At(t, "write_bytes", "start")
       /\ CallFn(t, "cmo_ret", "control_mode_on", "set_dcs", NoArgs)
       /\ rop' = [rop EXCEPT ![t] = RopInit("write_bytes")]
       /\ UNCHANGED <<pins, fields, panicked, hw, aw, lastSpi>>
    \* ..?; self.spi.transaction([Write(data)])
    \/ /\ At(t, "write_bytes", "cmo_ret")
       /\ IF rv[t].ok
            THEN \E ok \in BOOLEAN:
                   /\ transaction(t, "data", "spi", Top(t).a.data, 0, ok)
                   /\ Jump(t, "spi_ret", spi_result(ok, 0))
            ELSE Ret(t, rv[t]) /\ Pure
    \* ..?; self.await_data_request()?;
    \/ /\ At(t, "write_bytes", "spi_ret")
       /\ IF rv[t].ok
            THEN CallFn(t, "await_ret", "await_data_request", "start", NoArgs)
            ELSE Ret(t, rv[t])
       /\ Pure
    \* ..?; self.control_mode_off()?;
    \/ /\ At(t, "write_bytes", "await_ret")
       /\ IF rv[t].ok
            THEN CallFn(t, "cmoff_ret", "control_mode_off", "set_cs", NoArgs)
            ELSE Ret(t, rv[t])
       /\ Pure
    \* ..?; Ok(())
    \/ /\ At(t, "write_bytes", "cmoff_ret")
       /\ IF rv[t].ok THEN Ret(t, Ok(0)) ELSE Ret(t, rv[t])
       /\ Pure

(***************************************************************************)
(* Streaming writer: play_chunk2, and the legacy play_chunk                *)
(***************************************************************************)
\* the buffer of length n: byte i of it is i, so a slice tells where it came from
Buffer(n) == [i \in 1..n |-> i]

\* what sdi_send_buffer reads through the reference to ONE byte that
\* play_chunk is given (data: &u8): that byte (1), and behind it whatever
\* the memory holds: every byte after the first is any value of a u8
BehindByte(n) ==
    {[i \in 1..n |-> IF i = 1 THEN 1 ELSE behind[i]] : behind \in [2..n -> 0..255]}

\* if remaining > chunk_size { chunk_size } else { remaining }
ChunkLength(remaining, chunk_size) ==
    IF remaining > chunk_size THEN chunk_size ELSE remaining

\* &data[offset..offset + chunk_length]
Slice(data, offset, chunk_length) == SubSeq(data, offset + 1, offset + chunk_length)

play_chunk2_args(data, chunk_size) ==
    [data |-> data, remaining |-> Len(data), chunk_size |-> chunk_size,
     offset |-> 0, chunk_length |-> 0]

\* faulty variant: the result of the ready-wait dropped (let _ = instead of ?)
play_chunk2_write_unchecked(t) ==
    /\ At(t, "play_chunk2", "await_ret")
    /\ LET a == Top(t).a IN
       CallFn(t, "wb_ret", "write_bytes", "start",
              [data |-> Slice(a.data, a.offset, a.chunk_length)])
    /\ Pure

\* ..?; self.write_bytes(&data[offset..offset + chunk_length]) ..
play_chunk2_write(t) ==
    /\ At(t, "play_chunk2", "await_ret")
    /\ LET a == Top(t).a IN
       IF rv[t].ok
         THEN CallFn(t, "wb_ret", "write_bytes", "start",
                     [data |-> Slice(a.data, a.offset, a.chunk_length)])
         ELSE Ret(t, rv[t])
    /\ Pure

\* faulty variant: the cursor not advanced
play_chunk2_advance_no_offset(t) ==
    /\ At(t, "play_chunk2", "wb_ret")
    /\ LET a == Top(t).a IN
       IF rv[t].ok
         THEN GotoL(t, "loop", [a EXCEPT !.remaining = @ - a.chunk_length])
         ELSE Ret(t, rv[t])
    /\ Pure

\* ..?; remaining -= chunk_length; offset += chunk_length;
play_chunk2_advance(t) ==
    /\ At(t, "play_chunk2", "wb_ret")
    /\ LET a == Top(t).a IN
       IF rv[t].ok
         THEN GotoL(t, "loop", [a EXCEPT !.remaining = @ - a.chunk_length,
                                         !.offset = @ + a.chunk_length])
         ELSE Ret(t, rv[t])
    /\ Pure

play_chunk2(t) ==
    \* let _ = self.data_mode_on();
    \/ /\ At(t, "play_chunk2", "start")
       /\ CallFn(t, "loop", "data_mode_on", "set_cs", NoArgs)
       /\ Pure
    \* while remaining > 0 { chunk_length = ..; self.await_data_request() ..
    \* } let _ = self.data_mode_off();
    \/ /\ At(t, "play_chunk2", "loop")
       /\ LET a == Top(t).a IN
          IF a.remaining > 0
            THEN CallL(t, "await_ret",
                       [a EXCEPT !.chunk_length = ChunkLength(a.remaining, a.chunk_size)],
                       "await_data_request", "start", NoArgs)
            ELSE CallFn(t, "dmoff_ret", "data_mode_off", "set_dcs", NoArgs)
       /\ Pure
    \/ play_chunk2_write(t)
    \/ play_chunk2_advance(t)
    \* Ok(())
    \/ /\ At(t, "play_chunk2", "dmoff_ret")
       /\ Ret(t, Ok(0))
       /\ Pure

\* play_chunk(data, len) hands the buffer to sdi_send_buffer(data, length)
sdi_send_buffer_args(data, length) ==
    [data |-> data, chunk_length |-> 0, length |-> length, ptr |-> 0]

sdi_send_buffer(t) ==
    \* let _ = self.data_mode_on();
    \/ /\ At(t, "sdi_send_buffer", "start")
       /\ CallFn(t, "loop", "data_mode_on", "set_cs", NoArgs)
       /\ Pure
    \* while length > 0 { let _ = self.await_data_request(); ..
    \* } let _ = self.data_mode_off();
    \/ /\ At(t, "sdi_send_buffer", "loop")
       /\ IF Top(t).a.length > 0
            THEN CallFn(t, "await_ret", "await_data_request", "start", NoArgs)
            ELSE CallFn(t, "dmoff_ret", "data_mode_off", "set_dcs", NoArgs)
       /\ Pure
    \* chunk_length = ..; length -= chunk_length; self.write_bytes(data_slice)
    \/ /\ At(t, "sdi_send_buffer", "await_ret")
       /\ LET a == Top(t).a
              n == ChunkLength(a.length, VS1053_CHUNK_SIZE)
          IN CallL(t, "wb_ret", [a EXCEPT !.chunk_length = n, !.length = @ - n],
                   "write_bytes", "start", [data |-> Slice(a.data, a.ptr, n)])
       /\ Pure
    \* .expect("Error when write_bytes in sdi_send_buffer"); data = data.add(chunk_length);
    \/ /\ At(t, "sdi_send_buffer", "wb_ret")
       /\ LET a == Top(t).a IN
          IF rv[t].ok
            THEN /\ GotoL(t, "loop", [a EXCEPT !.ptr = @ + a.chunk_length])
                 /\ UNCHANGED panicked
            ELSE Panic(t)
       /\ UNCHANGED <<pins, fields, hw, rop, aw, lastSpi>>
    \/ /\ At(t, "sdi_send_buffer", "dmoff_ret")
       /\ Ret(t, Ok(0))
       /\ Pure

(***************************************************************************)
(* Volume / balance                                                        *)
(***************************************************************************)
\* Rust's integer division truncates toward zero, whatever the signs of the
\* dividend and of the divisor (a divisor of 0 panics; the driver divides by
\* in_max - in_min = 100 only)
TruncDiv(a, b) ==
    LET q == (IF a < 0 THEN -a ELSE a) \div (IF b < 0 THEN -b ELSE b)
    IN IF (a < 0) = (b < 0) THEN q ELSE -q

\* fn map(x, in_min, in_max, out_min, out_max) -> i64
map(x, in_min, in_max, out_min, out_max) ==
    TruncDiv((x - in_min) * (out_max - out_min), in_max - in_min) + out_min

\* `as u8` of an i64
as_u8(n) == n % 256

saturating_add_u8(a, b) == IF a + b > 255 THEN 255 ELSE a + b
saturating_sub_u8(a, b) == IF a - b < 0 THEN 0 ELSE a - b
unsigned_abs(b) == IF b < 0 THEN -b ELSE b
max(a, b) == IF a >= b THEN a ELSE b

\* faulty variant: the skew applied to the other channel
channel_inputs_skew_swapped(vol, balance) ==
    IF balance < 0
      THEN <<max(0, saturating_add_u8(vol, unsigned_abs(balance))), vol>>
    ELSE IF balance > 0
      THEN <<vol, max(0, saturating_sub_u8(vol, as_u8(balance)))>>
    ELSE <<vol, vol>>

\* the per-channel inputs (value_l, value_r) before scaling
channel_inputs(vol, balance) ==
    IF balance < 0
      THEN <<vol, max(0, saturating_add_u8(vol, unsigned_abs(balance)))>>
    ELSE IF balance > 0
      THEN <<max(0, saturating_sub_u8(vol, as_u8(balance))), vol>>
    ELSE <<vol, vol>>

\* faulty variant: the scale not inverted
channel_byte_not_inverted(value) == as_u8(map(value, 0, 100, 0, 254))

\* faulty variant: the scale taken up to 0xFF
channel_byte_full_scale(value) == as_u8(map(value, 0, 100, 255, 0))

\* map(value.into(), 0, 100, 0xFE, 0x00) as u8
channel_byte(value) == as_u8(map(value, 0, 100, 254, 0))

\* ((value_l as u16) << 8) | value_r as u16
volume_word(vol, balance) ==
    LET in == channel_inputs(vol, balance)
    IN channel_byte(in[1]) * 256 + channel_byte(in[2])

\* faulty variant: the volume stored only once the register write succeeded
set_volume_stored_on_success(t) ==
    \/ /\ At(t, "set_volume", "start")
       /\ CallFn(t, "wr_ret", "write_register", "start",
                 write_register_args(TRUE, SCI_VOL,
                                     volume_word(Top(t).a.vol, current_balance)))
       /\ Pure
    \/ /\ At(t, "set_volume", "wr_ret")
       /\ current_volume' = IF rv[t].ok THEN Top(t).a.vol ELSE current_volume
       /\ Ret(t, rv[t])
       /\ UNCHANGED <<pins, current_balance, panicked, hw, rop, aw, lastSpi>>

set_volume(t) ==
    \* self.current_volume = vol; ..; self.write_register(true, SCI_VOL, ..)
    \/ /\ At(t, "set_volume", "start")
       /\ current_volume' = Top(t).a.vol
       /\ CallFn(t, "wr_ret", "write_register", "start",
                 write_register_args(TRUE, SCI_VOL,
                                     volume_word(Top(t).a.vol, current_balance)))
       /\ UNCHANGED <<pins, current_balance, panicked, hw, rop, aw, lastSpi>>
    \/ /\ At(t, "set_volume", "wr_ret")
       /\ Ret(t, rv[t])
       /\ Pure

\* faulty variant: the lower clamp left out
clamp_balance_upper_only(balance) ==
    IF balance > 100 THEN 100 ELSE balance

\* the clamp of set_balance
clamp_balance(balance) ==
    IF balance > 100 THEN 100
    ELSE IF balance < -100 THEN -100
    ELSE balance

\* faulty variant: the volume reset along with the balance
set_balance_resets_volume(t) ==
    /\ At(t, "set_balance", "start")
    /\ current_balance' = clamp_balance(Top(t).a.balance)
    /\ current_volume' = 0
    /\ Ret(t, Ok(0))
    /\ UNCHANGED <<pins, panicked, hw, rop, aw, lastSpi>>

set_balance(t) ==
    /\ At(t, "set_balance", "start")
    /\ current_balance' = clamp_balance(Top(t).a.balance)
    /\ Ret(t, Ok(0))
    /\ UNCHANGED <<pins, current_volume, panicked, hw, rop, aw, lastSpi>>

\* for i in 0..=3 { nibble = rtone[i] & 0xF; value = (value << 4) | nibble as u16 }
tone_value(rtone) ==
    LET shift_in(value, byte) == ((value * 16) % 65536) + (byte % 16)
    IN shift_in(shift_in(shift_in(shift_in(0, rtone[1]), rtone[2]), rtone[3]), rtone[4])

set_tone(t) ==
    \* let _ = self.write_register(true, SCI_BASS, value);
    \/ /\ At(t, "set_tone", "start")
       /\ CallFn(t, "wr_ret", "write_register", "start",
                 write_register_args(TRUE, SCI_BASS, tone_value(Top(t).a.rtone)))
       /\ Pure
    \* the result of the write is dropped
    \/ /\ At(t, "set_tone", "wr_ret")
       /\ Ret(t, Ok(0))
       /\ Pure

\* pub fn get_volume(&mut self) -> u8 { self.current_volume }
get_volume(t) ==
    /\ At(t, "get_volume", "start")
    /\ Ret(t, Ok(current_volume))
    /\ Pure

(***************************************************************************)
(* Self-test: test_comm                                                    *)
(***************************************************************************)
\* contains(header, "Fast"): header is the address of a string literal, which
\* has no terminating NUL, and CStr::from_ptr reads on past its end up to the
\* next zero byte.  What lies there decides the answer: bytes that are not
\* UTF-8 make it false whatever the header says, a "Fast" among them makes
\* it true.  The answers the call can give:
contains(header, substr) == BOOLEAN

\* low: what the sample of data-ready at entry read
test_comm_args(header) ==
    [i |-> 0, header |-> header, low |-> FALSE, delta |-> 0, cnt |-> 0, r1 |-> 0]

\* the self-test returns: its outcome is kept in the history of the call
test_comm_return(t, low, cnt, pass) ==
    /\ hw' = [hw EXCEPT ![t].tc = Append(@, [low |-> low, cnt |-> cnt, pass |-> pass])]
    /\ Ret(t, Ok(Bool(pass)))

\* faulty variant: the sweep is run even though data-ready read low
test_comm_entry_no_fail_fast(t) ==
    /\ At(t, "test_comm", "start")
    /\ \E acquired \in BOOLEAN, is_high \in BOOLEAN:
         IF ~acquired
           THEN Panic(t) /\ UNCHANGED hw
           ELSE /\ \E fast \in contains(Top(t).a.header, "Fast"):
                     GotoL(t, "loop", [Top(t).a EXCEPT
                             !.low = ~is_high,
                             !.delta = IF fast THEN FAST_DELTA ELSE SLOW_DELTA])
                /\ UNCHANGED <<hw, panicked>>
    /\ UNCHANGED <<pins, fields, rop, aw, lastSpi>>

\* PinDriver::input(&mut self.dreq_pin) .. expect(); if !dreq.is_high() {
\* return false }; delta = if contains(header, "Fast") { 3 } else { 300 }
test_comm_entry(t) ==
    /\ At(t, "test_comm", "start")
    /\ \E acquired \in BOOLEAN, is_high \in BOOLEAN:
         IF ~acquired
           THEN Panic(t) /\ UNCHANGED hw
           ELSE IF ~is_high
             THEN test_comm_return(t, TRUE, 0, FALSE) /\ UNCHANGED panicked
             ELSE /\ \E fast \in contains(Top(t).a.header, "Fast"):
                       GotoL(t, "loop", [Top(t).a EXCEPT
                               !.delta = IF fast THEN FAST_DELTA ELSE SLOW_DELTA])
                  /\ UNCHANGED <<hw, panicked>>
    /\ UNCHANGED <<pins, fields, rop, aw, lastSpi>>

\* faulty variant: the limit tested one step late
sweep_aborts_late(cnt) == cnt > MAX_BAD_STEPS

\* if cnt >= 20 { break; }
sweep_aborts(cnt) == cnt >= MAX_BAD_STEPS

\* if r1 != r2 || i != r1 || i != r2
bad_step(i, r1, r2) == r1 # r2 \/ i # r1 \/ i # r2

test_comm(t) ==
    \/ test_comm_entry(t)
    \* for i in (0..0xFFFF).step_by(delta) { if cnt >= 20 { break; }
    \*     let _ = self.write_register(true, SCI_VOL, i); ..
    \* } cnt == 0
    \/ /\ At(t, "test_comm", "loop")
       /\ LET a == Top(t).a IN
          IF a.i < SWEEP_END /\ ~sweep_aborts(a.cnt)
            THEN /\ CallFn(t, "wr_ret", "write_register", "start",
                           write_register_args(TRUE, SCI_VOL, a.i))
                 /\ UNCHANGED hw
            ELSE test_comm_return(t, a.low, a.cnt, a.cnt = 0)
       /\ UNCHANGED <<pins, fields, panicked, rop, aw, lastSpi>>
    \* r1 = self.read_register(SCI_VOL)
    \/ /\ At(t, "test_comm", "wr_ret")
       /\ CallFn(t, "r1_ret", "read_register", "start", read_register_args(SCI_VOL))
       /\ Pure
    \* .expect("First SCI_VOL test_comm read"); r2 = self.read_register(SCI_VOL)
    \/ /\ At(t, "test_comm", "r1_ret")
       /\ IF rv[t].ok
            THEN /\ CallL(t, "r2_ret", [Top(t).a EXCEPT !.r1 = rv[t].val],
                          "read_register", "start", read_register_args(SCI_VOL))
                 /\ UNCHANGED panicked
            ELSE Panic(t)
       /\ UNCHANGED <<pins, fields, hw, rop, aw, lastSpi>>
    \* .expect("Second SCI_VOL test_comm read");
    \* if <bad step> { cnt += 1; sleep(10) } else { break }
    \/ /\ At(t, "test_comm", "r2_ret")
       /\ LET a == Top(t).a IN
          IF rv[t].ok
            THEN /\ IF bad_step(a.i, a.r1, rv[t].val)
                      THEN /\ JumpL(t, "loop", [a EXCEPT !.i = @ + a.delta,
                                                         !.cnt = @ + 1, !.r1 = 0],
                                      NoResult)
                           /\ UNCHANGED hw
                      ELSE test_comm_return(t, a.low, a.cnt, a.cnt = 0)
                 /\ UNCHANGED panicked
            ELSE Panic(t) /\ UNCHANGED hw
       /\ UNCHANGED <<pins, fields, rop, aw, lastSpi>>

(***************************************************************************)
(* Bring-up: begin, with _wram_read and print_details                      *)
(***************************************************************************)
\* macro _bv!(bit): 1 << bit
_bv(bit) == 2 ^ bit

\* self.write_register(true, SCI_WRAMADDR, address)?; self.read_register(SCI_WRAM)
wram_read(t) ==
    \/ /\ At(t, "wram_read", "start")
       /\ CallFn(t, "wr_ret", "write_register", "start",
                 write_register_args(TRUE, SCI_WRAMADDR, Top(t).a.address))
       /\ Pure
    \/ /\ At(t, "wram_read", "wr_ret")
       /\ IF rv[t].ok
            THEN CallFn(t, "rd_ret", "read_register", "start", read_register_args(SCI_WRAM))
            ELSE Ret(t, rv[t])
       /\ Pure
    \/ /\ At(t, "wram_read", "rd_ret")
       /\ Ret(t, rv[t])
       /\ Pure

\* self.write_register(true, SCI_WRAMADDR, address)?;
\* self.write_register(true, SCI_WRAM, data)
wram_write(t) ==
    \/ /\ At(t, "wram_write", "start")
       /\ CallFn(t, "addr_ret", "write_register", "start",
                 write_register_args(TRUE, SCI_WRAMADDR, Top(t).a.address))
       /\ Pure
    \/ /\ At(t, "wram_write", "addr_ret")
       /\ IF rv[t].ok
            THEN CallFn(t, "data_ret", "write_register", "start",
                        write_register_args(TRUE, SCI_WRAM, Top(t).a.data))
            ELSE Ret(t, rv[t])
       /\ Pure
    \/ /\ At(t, "wram_write", "data_ret")
       /\ Ret(t, rv[t])
       /\ Pure

wram_write_args(address, data) == [address |-> address, data |-> data]

\* faulty variant: the reset bit left out
soft_reset_word_no_reset == _bv(SM_SDINEW)

\* _bv!(SM_SDINEW) | _bv!(SM_RESET)
soft_reset_word == _bv(SM_SDINEW) + _bv(SM_RESET)

\* let _ = self.write_register(true, SCI_MODE, ..); sleep(10 ms);
\* let _ = self.await_data_request();
soft_reset(t) ==
    \/ /\ At(t, "soft_reset", "start")
       /\ CallFn(t, "wr_ret", "write_register", "start",
                 write_register_args(TRUE, SCI_MODE, soft_reset_word))
       /\ Pure
    \/ /\ At(t, "soft_reset", "wr_ret")
       /\ CallFn(t, "await_ret", "await_data_request", "start", NoArgs)
       /\ Pure
    \/ /\ At(t, "soft_reset", "await_ret")
       /\ Ret(t, Ok(0))
       /\ Pure

\* let _ = self.wram_write(ADDR_REG_GPIO_DDR_RW, 3);
\* let _ = self.wram_write(ADDR_REG_GPIO_ODATA_RW, 0);
\* sleep(100 ms); self.soft_reset();
switch_to_mp3_mode(t) ==
    \/ /\ At(t, "switch_to_mp3_mode", "start")
       /\ CallFn(t, "ddr_ret", "wram_write", "start",
                 wram_write_args(ADDR_REG_GPIO_DDR_RW, 3))
       /\ Pure
    \/ /\ At(t, "switch_to_mp3_mode", "ddr_ret")
       /\ CallFn(t, "odata_ret", "wram_write", "start",
                 wram_write_args(ADDR_REG_GPIO_ODATA_RW, 0))
       /\ Pure
    \/ /\ At(t, "switch_to_mp3_mode", "odata_ret")
       /\ CallFn(t, "reset_ret", "soft_reset", "start", NoArgs)
       /\ Pure
    \/ /\ At(t, "switch_to_mp3_mode", "reset_ret")
       /\ Ret(t, Ok(0))
       /\ Pure

\* for i in 0..=SCI_NUM_REGISTERS { regbuf[i] = self.read_register(i).expect(..) }
print_details(t) ==
    \/ /\ At(t, "print_details", "start")
       /\ IF Top(t).a.i <= SCI_NUM_REGISTERS
            THEN CallFn(t, "rd_ret", "read_register", "start",
                        read_register_args(Top(t).a.i))
            ELSE Ret(t, Ok(0))
       /\ Pure
    \/ /\ At(t, "print_details", "rd_ret")
       /\ IF rv[t].ok
            THEN GotoL(t, "start", [i |-> Top(t).a.i + 1]) /\ UNCHANGED panicked
            ELSE Panic(t)
       /\ UNCHANGED <<pins, fields, hw, rop, aw, lastSpi>>

\* the reset pulse begin drives on the select lines: set_dcs_pin(true)?;
\* set_cs_pin(true)?; set_dcs_pin(false)?; set_cs_pin(false)?;
\* set_dcs_pin(true)?; set_cs_pin(true)?
ResetPulse == << <<"xdcs", TRUE>>, <<"xcs", TRUE>>, <<"xdcs", FALSE>>,
                 <<"xcs", FALSE>>, <<"xdcs", TRUE>>, <<"xcs", TRUE>> >>

\* a step of begin's fast path is reached
Reach(t, step) == hw' = [hw EXCEPT ![t].path = @ \cup step]
ReachOnly == UNCHANGED <<pins, fields, panicked, rop, aw, lastSpi>>

\* faulty variant: the fast path entered whatever the slow self-test returned
begin_after_slow_test_unchecked(t) ==
    /\ At(t, "begin", "slow_ret")
    /\ CallFn(t, "audata_ret", "write_register", "start",
              write_register_args(FALSE, SCI_AUDATA, AUDATA_44K1_STEREO))
    /\ Reach(t, {"audata"})
    /\ ReachOnly

\* if self.test_comm("Slow SPI,..") { self.write_register(false, SCI_AUDATA, 44101) ..
\* } Ok(())
begin_after_slow_test(t) ==
    /\ At(t, "begin", "slow_ret")
    /\ IF rv[t].val = 1
         THEN /\ CallFn(t, "audata_ret", "write_register", "start",
                        write_register_args(FALSE, SCI_AUDATA, AUDATA_44K1_STEREO))
              /\ Reach(t, {"audata"})
         ELSE /\ Ret(t, Ok(0))
              /\ UNCHANGED hw
    /\ ReachOnly

\* faulty variant: a failed fast self-test returned as an error
begin_after_fast_test_fatal(t) ==
    /\ At(t, "begin", "fast_ret")
    /\ IF rv[t].val = 1
         THEN /\ CallFn(t, "await_ret", "await_data_request", "start", NoArgs)
              /\ Reach(t, {"wait"})
         ELSE /\ Ret(t, Err("Spi"))
              /\ UNCHANGED hw
    /\ ReachOnly

\* let _ = self.test_comm("Fast SPI, .."); sleep(10); self.await_data_request()
begin_after_fast_test(t) ==
    /\ At(t, "begin", "fast_ret")
    /\ CallFn(t, "await_ret", "await_data_request", "start", NoArgs)
    /\ Reach(t, {"wait"})
    /\ ReachOnly

begin(t) ==
    \* the reset pulse, then self.test_comm("Slow SPI,..")
    \/ /\ At(t, "begin", "start")
       /\ LET k == Top(t).a.k IN
          IF k <= Len(ResetPulse)
            THEN \E o \in PinOutcomes:
                   IF ResetPulse[k][1] = "xdcs"
                     THEN /\ set_dcs_pin(t, ResetPulse[k][2], o)
                          /\ IF set_dcs_pin_result(o).ok
                               THEN GotoL(t, "start", [k |-> k + 1])
                               ELSE Ret(t, set_dcs_pin_result(o))
                     ELSE /\ set_cs_pin(t, ResetPulse[k][2], o)
                          /\ IF set_cs_pin_result(o).ok
                               THEN GotoL(t, "start", [k |-> k + 1])
                               ELSE Ret(t, set_cs_pin_result(o))
            ELSE /\ CallFn(t, "slow_ret", "test_comm", "start", test_comm_args("Slow"))
                 /\ Pure
    \/ begin_after_slow_test(t)
    \* ..?; self.write_register(false, SCI_CLOCKF, 6 << 12)
    \/ /\ At(t, "begin", "audata_ret")
       /\ IF rv[t].ok
            THEN /\ CallFn(t, "clockf_ret", "write_register", "start",
                           write_register_args(FALSE, SCI_CLOCKF, 6 * _bv(12)))
                 /\ Reach(t, {"clockf"})
            ELSE /\ Ret(t, rv[t])
                 /\ UNCHANGED hw
       /\ ReachOnly
    \* ..?; self.write_register(true, SCI_MODE, _bv!(SM_SDINEW) | _bv!(SM_LINE1))
    \/ /\ At(t, "begin", "clockf_ret")
       /\ IF rv[t].ok
            THEN /\ CallFn(t, "mode_ret", "write_register", "start",
                           write_register_args(TRUE, SCI_MODE, _bv(SM_SDINEW) + _bv(SM_LINE1)))
                 /\ Reach(t, {"clockf_done", "mode"})
            ELSE /\ Ret(t, rv[t])
                 /\ UNCHANGED hw
       /\ ReachOnly
    \* ..?; let _ = self.test_comm("Fast SPI, ..")
    \/ /\ At(t, "begin", "mode_ret")
       /\ IF rv[t].ok
            THEN /\ CallFn(t, "fast_ret", "test_comm", "start", test_comm_args("Fast"))
                 /\ Reach(t, {"fast"})
            ELSE /\ Ret(t, rv[t])
                 /\ UNCHANGED hw
       /\ ReachOnly
    \/ begin_after_fast_test(t)
    \* ..?; let efb = self._wram_read(0x1E06)
    \/ /\ At(t, "begin", "await_ret")
       /\ IF rv[t].ok
            THEN /\ CallFn(t, "efb_ret", "wram_read", "start", [address |-> END_FILL_BYTE])
                 /\ Reach(t, {"efb"})
            ELSE /\ Ret(t, rv[t])
                 /\ UNCHANGED hw
       /\ ReachOnly
    \* ..?; self.print_details("After last clocksetting")
    \/ /\ At(t, "begin", "efb_ret")
       /\ IF rv[t].ok
            THEN /\ CallFn(t, "pd_ret", "print_details", "start", [i |-> 0])
                 /\ Reach(t, {"details"})
            ELSE /\ Ret(t, rv[t])
                 /\ UNCHANGED hw
       /\ ReachOnly
    \* sleep(100); } Ok(())
    \/ /\ At(t, "begin", "pd_ret")
       /\ Ret(t, Ok(0))
       /\ Pure

(***************************************************************************)
(* Stopping a song: stop_song, with sdi_send_fillers                       *)
(***************************************************************************)
sdi_send_fillers_args(length) == [chunk_length |-> 0, length |-> length, j |-> 0]

sdi_send_fillers(t) ==
    \* let _ = self.data_mode_on();
    \/ /\ At(t, "sdi_send_fillers", "start")
       /\ CallFn(t, "loop", "data_mode_on", "set_cs", NoArgs)
       /\ Pure
    \* while length > 0 { let _ = self.await_data_request(); ..
    \* } let _ = self.data_mode_off();
    \/ /\ At(t, "sdi_send_fillers", "loop")
       /\ IF Top(t).a.length > 0
            THEN CallFn(t, "await_ret", "await_data_request", "start", NoArgs)
            ELSE CallFn(t, "dmoff_ret", "data_mode_off", "set_dcs", NoArgs)
       /\ Pure
    \* chunk_length = ..; length -= chunk_length; for _ in 0..chunk_length {
    \/ /\ At(t, "sdi_send_fillers", "await_ret")
       /\ LET a == Top(t).a
              n == ChunkLength(a.length, VS1053_CHUNK_SIZE)
          IN JumpL(t, "byte", [a EXCEPT !.chunk_length = n, !.length = @ - n, !.j = 0],
                   NoResult)
       /\ Pure
    \* let efb = self._wram_read(0x1E06)
    \/ /\ At(t, "sdi_send_fillers", "byte")
       /\ IF Top(t).a.j < Top(t).a.chunk_length
            THEN CallFn(t, "efb_ret", "wram_read", "start", [address |-> END_FILL_BYTE])
            ELSE Goto(t, "loop")
       /\ Pure
    \* .expect("Failed to wram_read in sdi_send_fillers");
    \* let _ = self.spi.transaction(&mut [Operation::Write(&[msb, lsb])])
    \/ /\ At(t, "sdi_send_fillers", "efb_ret")
       /\ IF rv[t].ok
            THEN /\ \E ok \in BOOLEAN:
                      transaction(t, "fill", "spi",
                                  <<((rv[t].val % 256) \div 256) % 256, rv[t].val % 256>>,
                                  0, ok)
                 /\ JumpL(t, "byte", [Top(t).a EXCEPT !.j = @ + 1], NoResult)
            ELSE /\ Panic(t)
                 /\ UNCHANGED <<pins, fields, hw, rop, aw, lastSpi>>
    \/ /\ At(t, "sdi_send_fillers", "dmoff_ret")
       /\ Ret(t, Ok(0))
       /\ Pure

\* does the loop  for i in 0..=200  run its body for this i
stop_in_range(i) == i <= STOP_LAST_POLL

\* faulty variant: the reset bit tested instead of the cancel bit
cancel_cleared_reset_bit(modereg) == (modereg \div _bv(SM_RESET)) % 2 = 0

\* (modereg & _bv!(SM_CANCEL)) == 0
cancel_cleared(modereg) == (modereg \div _bv(SM_CANCEL)) % 2 = 0

stop_song(t) ==
    \* self.sdi_send_fillers(2052)
    \/ /\ At(t, "stop_song", "start")
       /\ CallFn(t, "flush_ret", "sdi_send_fillers", "start", sdi_send_fillers_args(FlushLen))
       /\ Pure
    \* let _ = self.write_register(true, SCI_MODE, _bv!(SM_SDINEW) | _bv!(SM_CANCEL))
    \/ /\ At(t, "stop_song", "flush_ret")
       /\ CallFn(t, "loop", "write_register", "start",
                 write_register_args(TRUE, SCI_MODE, _bv(SM_SDINEW) + _bv(SM_CANCEL)))
       /\ Pure
    \* for i in 0..=200 { self.sdi_send_fillers(32); ..
    \* } self.print_details("Song stopped incorrectly!")
    \/ /\ At(t, "stop_song", "loop")
       /\ IF stop_in_range(Top(t).a.i)
            THEN CallFn(t, "burst_ret", "sdi_send_fillers", "start",
                        sdi_send_fillers_args(BurstLen))
            ELSE CallFn(t, "end_ret", "print_details", "start", [i |-> 0])
       /\ Pure
    \* modereg = self.read_register(SCI_MODE)
    \/ /\ At(t, "stop_song", "burst_ret")
       /\ CallFn(t, "mode_ret", "read_register", "start", read_register_args(SCI_MODE))
       /\ Pure
    \* .expect("Failed to read SCI_MODE in stop_song()");
    \* if (modereg & _bv!(SM_CANCEL)) == 0 { self.sdi_send_fillers(2052); return; }
    \/ /\ At(t, "stop_song", "mode_ret")
       /\ IF rv[t].ok
            THEN /\ IF cancel_cleared(rv[t].val)
                      THEN CallL(t, "end_ret", [i |-> 0], "sdi_send_fillers", "start",
                                 sdi_send_fillers_args(FlushLen))
                      ELSE JumpL(t, "loop", [i |-> Top(t).a.i + 1], NoResult)
                 /\ UNCHANGED panicked
            ELSE Panic(t)
       /\ UNCHANGED <<pins, fields, hw, rop, aw, lastSpi>>
    \/ /\ At(t, "stop_song", "end_ret")
       /\ Ret(t, Ok(0))
       /\ Pure

(***************************************************************************)
(* Chip queries: is_chip_connected / get_chip_version                      *)
(***************************************************************************)
\* faulty variant: only the all-zero status taken as no chip
chip_connected_zero_only(status) == ~(status = 0)

\* !(status == 0 || status == 0xFFFF)
chip_connected(status) == ~(status = 0 \/ status = 65535)

\* (status & 0x00F0) >> 4
chip_version(status) == (status \div 16) % 16

\* self.read_register(SCI_STATUS).expect(..): an Err panics
status_read(t) ==
    IF rv[t].ok
      THEN /\ Ret(t, Ok(IF Top(t).fn = "is_chip_connected"
                          THEN Bool(chip_connected(rv[t].val))
                          ELSE chip_version(rv[t].val)))
           /\ UNCHANGED panicked
      ELSE Panic(t)

is_chip_connected(t) ==
    \/ /\ At(t, "is_chip_connected", "start")
       /\ CallFn(t, "rd_ret", "read_register", "start", read_register_args(SCI_STATUS))
       /\ Pure
    \/ /\ At(t, "is_chip_connected", "rd_ret")
       /\ status_read(t)
       /\ UNCHANGED <<pins, fields, hw, rop, aw, lastSpi>>

get_chip_version(t) ==
    \/ /\ At(t, "get_chip_version", "start")
       /\ CallFn(t, "rd_ret", "read_register", "start", read_register_args(SCI_STATUS))
       /\ Pure
    \/ /\ At(t, "get_chip_version", "rd_ret")
       /\ status_read(t)
       /\ UNCHANGED <<pins, fields, hw, rop, aw, lastSpi>>

(***************************************************************************)
(* The calls made on the driver                                            *)
(***************************************************************************)
Idle(t) == ~panicked /\ stack[t] = <<>>

\* the call, with what it found at its start: the stored volume and balance,
\* whether the call before it returned an error, and the select lines as
\* that call left them
CallInit(fn, a) == [fn |-> fn, a |-> a, done |-> FALSE, res |-> NoResult,
                    vol0 |-> current_volume, bal0 |-> current_balance,
                    prevErr |-> FALSE, xcs0 |-> xcs_pin, xdcs0 |-> xdcs_pin]

Invoke(t, fn, a) ==
    /\ Idle(t)
    /\ stack' = [stack EXCEPT ![t] = <<Frame(fn, "start", a)>>]
    /\ rv' = [rv EXCEPT ![t] = NoResult]
    /\ call' = [call EXCEPT ![t] = [CallInit(fn, a) EXCEPT
                    !.prevErr = call[t].done /\ ~call[t].res.ok]]
    /\ hw' = [hw EXCEPT ![t] = HwInit]
    /\ rop' = [rop EXCEPT ![t] = RopInit("none")]
    /\ aw' = [aw EXCEPT ![t] = AwInit]
    /\ lastSpi' = NoSpi
    /\ UNCHANGED <<pins, fields, panicked>>

RegArgs   == {SCI_MODE, SCI_VOL}
ValueArgs == {0, 4660, 65535}
LenArgs   == 0..MaxLen
ChunkArgs == 1..MaxChunk
VolumeArgs  == {0, 50, 100}
BalanceArgs == {-128, -100, 0, 100, 127}

call_read_register(t) ==
    \E address \in RegArgs \cup {SCI_STATUS}:
        Invoke(t, "read_register", read_register_args(address))

call_write_register(t) ==
    \E hs \in BOOLEAN, reg \in RegArgs, value \in ValueArgs:
        Invoke(t, "write_register", write_register_args(hs, reg, value))

call_play_chunk2(t) ==
    \E n \in LenArgs, c \in ChunkArgs:
        Invoke(t, "play_chunk2", play_chunk2_args(Buffer(n), c))

\* one call of play_chunk; len = 0, 1 (the byte itself) and 2 (one byte
\* read behind it)
call_play_chunk(t) ==
    /\ call[t].fn = "none"
    /\ \E n \in 0..2: \E data \in BehindByte(n):
        Invoke(t, "sdi_send_buffer", sdi_send_buffer_args(data, n))

call_set_volume(t) ==
    \E vol \in VolumeArgs: Invoke(t, "set_volume", [vol |-> vol])

call_set_balance(t) ==
    \E balance \in BalanceArgs: Invoke(t, "set_balance", [balance |-> balance])

call_await_data_request(t) ==
    Invoke(t, "await_data_request", NoArgs)

\* main calls begin() once, at start-up
call_begin(t) ==
    /\ call[t].fn = "none"
    /\ Invoke(t, "begin", [k |-> 1])

\* the self-test on its own, as begin calls it
call_test_comm(t) ==
    /\ call[t].fn = "none"
    /\ \E header \in {"Slow", "Fast"}: Invoke(t, "test_comm", test_comm_args(header))

\* one call of stop_song on a driver that has made no call yet
call_stop_song(t) ==
    /\ call[t].fn = "none"
    /\ Invoke(t, "stop_song", [i |-> 0])

\* the volumes and the stored balances the volume model is checked for
VolumeRange  == 0..100
BalanceRange == -100..100

\* one call of set_volume
call_set_volume_once(t) ==
    /\ call[t].fn = "none"
    /\ \E vol \in VolumeRange: Invoke(t, "set_volume", [vol |-> vol])

\* vol: u8, taken at the ends of the type and of the nominal range
call_set_volume_u8(t) ==
    \E vol \in {0, 100, 101, 255}: Invoke(t, "set_volume", [vol |-> vol])

\* one call of set_balance; balance: i8, any value of the type
call_set_balance_i8(t) ==
    /\ call[t].fn = "none"
    /\ \E balance \in -128..127: Invoke(t, "set_balance", [balance |-> balance])

call_get_volume(t) ==
    Invoke(t, "get_volume", NoArgs)

\* rtone points to the four bytes of the tone setting, of which the low
\* nibbles are used
call_set_tone(t) ==
    \E rtone \in {<<0, 0, 0, 0>>, <<1, 2, 3, 4>>, <<255, 16, 31, 15>>}:
        Invoke(t, "set_tone", [rtone |-> rtone])

\* the mutex of the firmware that shares the driver, held across the entire
\* call: while a call of one thread runs, no other thread can start one
exclusive_borrow(t) == \A u \in SharedThreads \ {t}: ~Running(u)

\* one call of play_chunk2; chunk_size: usize, 0 included
call_play_chunk2_usize(t) ==
    /\ call[t].fn = "none"
    /\ \E n \in LenArgs, c \in 0..MaxChunk:
         Invoke(t, "play_chunk2", play_chunk2_args(Buffer(n), c))

\* one call of switch_to_mp3_mode
call_switch_to_mp3_mode(t) ==
    /\ call[t].fn = "none"
    /\ Invoke(t, "switch_to_mp3_mode", NoArgs)

call_is_chip_connected(t) ==
    Invoke(t, "is_chip_connected", NoArgs)

call_get_chip_version(t) ==
    Invoke(t, "get_chip_version", NoArgs)

(***************************************************************************)
(* Specifications                                                          *)
(***************************************************************************)
\* VS1053::new: volume 50, balance 0, no I/O: both select lines idle,
\* released (high).  The HAL the firmware is built against is one of
\* HalBehaviours, the same for the whole run
InitOf(threads) ==
    /\ xcs_pin = TRUE
    /\ xdcs_pin = TRUE
    /\ hal \in HalBehaviours
    /\ current_volume = 50
    /\ current_balance = 0
    /\ stack = [t \in threads |-> <<>>]
    /\ rv = [t \in threads |-> NoResult]
    /\ panicked = FALSE
    /\ call = [t \in threads |-> CallInit("none", NoArgs)]
    /\ hw = [t \in threads |-> HwInit]
    /\ rop = [t \in threads |-> RopInit("none")]
    /\ aw = [t \in threads |-> AwInit]
    /\ lastSpi = NoSpi

Init == InitOf(Threads)

\* the same driver, handed to the two threads of the firmware that shares it
InitShared == InitOf(SharedThreads)

\* the register and streaming calls, made one after the other by one thread
Next ==
    \/ call_read_register(MainThread)
    \/ call_write_register(MainThread)
    \/ call_play_chunk2(MainThread)
    \/ control_mode_on(MainThread)
    \/ control_mode_off(MainThread)
    \/ data_mode_on(MainThread)
    \/ data_mode_off(MainThread)
    \/ await_data_request_input(MainThread)
    \/ await_data_request_poll(MainThread)
    \/ read_register(MainThread)
    \/ write_register(MainThread)
    \/ write_bytes(MainThread)
    \/ play_chunk2(MainThread)

Spec == Init /\ [][Next]_vars

\* a driver whose select lines are as the calls made so far have left them:
\* released, or still asserted after a call that returned early.  Under a
\* HAL that releases on drop no line is left low, and under one that resets
\* on acquisition the two are not both left low
InitPlay ==
    /\ hal \in HalBehaviours
    /\ xcs_pin \in BOOLEAN
    /\ xdcs_pin \in BOOLEAN
    /\ hal = "release" => (xcs_pin /\ xdcs_pin)
    /\ hal = "reset" => (xcs_pin \/ xdcs_pin)
    /\ current_volume = 50
    /\ current_balance = 0
    /\ stack = [t \in Threads |-> <<>>]
    /\ rv = [t \in Threads |-> NoResult]
    /\ panicked = FALSE
    /\ call = [t \in Threads |-> CallInit("none", NoArgs)]
    /\ hw = [t \in Threads |-> HwInit]
    /\ rop = [t \in Threads |-> RopInit("none")]
    /\ aw = [t \in Threads |-> AwInit]
    /\ lastSpi = NoSpi

\* the legacy streaming call, play_chunk, made once on such a driver
NextPlay ==
    \/ call_play_chunk(MainThread)
    \/ control_mode_on(MainThread)
    \/ control_mode_off(MainThread)
    \/ data_mode_on(MainThread)
    \/ data_mode_off(MainThread)
    \/ await_data_request_input(MainThread)
    \/ await_data_request_poll(MainThread)
    \/ write_bytes(MainThread)
    \/ sdi_send_buffer(MainThread)

SpecPlay == InitPlay /\ [][NextPlay]_vars

\* the register calls and the volume model
NextReg ==
    \/ call_read_register(MainThread)
    \/ call_write_register(MainThread)
    \/ call_set_volume(MainThread)
    \/ call_set_balance(MainThread)
    \/ control_mode_on(MainThread)
    \/ control_mode_off(MainThread)
    \/ await_data_request_input(MainThread)
    \/ await_data_request_poll(MainThread)
    \/ read_register(MainThread)
    \/ write_register(MainThread)
    \/ set_volume(MainThread)
    \/ set_balance(MainThread)

SpecReg == Init /\ [][NextReg]_vars

\* one ready-wait, poll by poll
NextAwait ==
    \/ call_await_data_request(MainThread)
    \/ await_data_request_input(MainThread)
    \/ await_data_request_poll(MainThread)

SpecAwait == Init /\ [][NextAwait]_vars

\* the chip queries main makes right after VS1053::new
NextChip ==
    \/ call_is_chip_connected(MainThread)
    \/ call_get_chip_version(MainThread)
    \/ control_mode_on(MainThread)
    \/ control_mode_off(MainThread)
    \/ await_data_request_input(MainThread)
    \/ await_data_request_poll(MainThread)
    \/ read_register(MainThread)
    \/ is_chip_connected(MainThread)
    \/ get_chip_version(MainThread)

SpecChip == Init /\ [][NextChip]_vars

\* the self-test
NextTest ==
    \/ call_test_comm(MainThread)
    \/ control_mode_on(MainThread)
    \/ control_mode_off(MainThread)
    \/ await_data_request_input(MainThread)
    \/ await_data_request_poll(MainThread)
    \/ read_register(MainThread)
    \/ write_register(MainThread)
    \/ test_comm(MainThread)

SpecTest == Init /\ [][NextTest]_vars

\* bring-up
NextBegin ==
    \/ call_begin(MainThread)
    \/ control_mode_on(MainThread)
    \/ control_mode_off(MainThread)
    \/ await_data_request_input(MainThread)
    \/ await_data_request_poll(MainThread)
    \/ read_register(MainThread)
    \/ write_register(MainThread)
    \/ test_comm(MainThread)
    \/ wram_read(MainThread)
    \/ print_details(MainThread)
    \/ begin(MainThread)

SpecBegin == Init /\ [][NextBegin]_vars

\* stopping a song
NextStop ==
    \/ call_stop_song(MainThread)
    \/ control_mode_on(MainThread)
    \/ control_mode_off(MainThread)
    \/ data_mode_on(MainThread)
    \/ data_mode_off(MainThread)
    \/ await_data_request_input(MainThread)
    \/ await_data_request_poll(MainThread)
    \/ read_register(MainThread)
    \/ write_register(MainThread)
    \/ wram_read(MainThread)
    \/ print_details(MainThread)
    \/ sdi_send_fillers(MainThread)
    \/ stop_song(MainThread)

SpecStop == Init /\ [][NextStop]_vars

\* the volume model: set_volume called once for a volume of VolumeRange on
\* a driver whose stored balance is any value set_balance can have stored
\* (20301 pairs), built against any of the HAL behaviours
InitVol ==
    /\ xcs_pin = TRUE
    /\ xdcs_pin = TRUE
    /\ hal \in HalBehaviours
    /\ current_volume = 50
    /\ current_balance \in BalanceRange
    /\ stack = [t \in Threads |-> <<>>]
    /\ rv = [t \in Threads |-> NoResult]
    /\ panicked = FALSE
    /\ call = [t \in Threads |-> CallInit("none", NoArgs)]
    /\ hw = [t \in Threads |-> HwInit]
    /\ rop = [t \in Threads |-> RopInit("none")]
    /\ aw = [t \in Threads |-> AwInit]
    /\ lastSpi = NoSpi

NextVol ==
    \/ call_set_volume_once(MainThread)
    \/ control_mode_on(MainThread)
    \/ control_mode_off(MainThread)
    \/ await_data_request_input(MainThread)
    \/ await_data_request_poll(MainThread)
    \/ write_register(MainThread)
    \/ set_volume(MainThread)

SpecVol == InitVol /\ [][NextVol]_vars

\* the switch to mp3 mode
NextMp3 ==
    \/ call_switch_to_mp3_mode(MainThread)
    \/ control_mode_on(MainThread)
    \/ control_mode_off(MainThread)
    \/ await_data_request_input(MainThread)
    \/ await_data_request_poll(MainThread)
    \/ write_register(MainThread)
    \/ wram_write(MainThread)
    \/ soft_reset(MainThread)
    \/ switch_to_mp3_mode(MainThread)

SpecMp3 == Init /\ [][NextMp3]_vars

\* one call of play_chunk2, which is not left half-way: each step of the
\* call is taken as long as it can be
NextChunk ==
    \/ call_play_chunk2_usize(MainThread)
    \/ control_mode_on(MainThread)
    \/ control_mode_off(MainThread)
    \/ data_mode_on(MainThread)
    \/ data_mode_off(MainThread)
    \/ await_data_request_input(MainThread)
    \/ await_data_request_poll(MainThread)
    \/ write_bytes(MainThread)
    \/ play_chunk2(MainThread)

SpecChunk == Init /\ [][NextChunk]_vars /\ WF_vars(NextChunk)

\* a driver used by two threads: one streaming call (two chunks of one
\* byte) by the main thread and one register call (a write or a read) by
\* the other, in either order, each for the whole call
NextShared ==
    \/ /\ exclusive_borrow(MainThread)
       /\ call[MainThread].fn = "none"
       /\ Invoke(MainThread, "play_chunk2", play_chunk2_args(Buffer(2), 1))
    \/ /\ exclusive_borrow("http")
       /\ call["http"].fn = "none"
       /\ Invoke("http", "write_register", write_register_args(TRUE, SCI_VOL, 4660))
    \/ /\ exclusive_borrow("http")
       /\ call["http"].fn = "none"
       /\ Invoke("http", "read_register", read_register_args(SCI_STATUS))
    \/ \E t \in SharedThreads: control_mode_on(t)
    \/ \E t \in SharedThreads: control_mode_off(t)
    \/ \E t \in SharedThreads: data_mode_on(t)
    \/ \E t \in SharedThreads: data_mode_off(t)
    \/ \E t \in SharedThreads: await_data_request_input(t)
    \/ \E t \in SharedThreads: await_data_request_poll(t)
    \/ \E t \in SharedThreads: read_register(t)
    \/ \E t \in SharedThreads: write_register(t)
    \/ \E t \in SharedThreads: write_bytes(t)
    \/ \E t \in SharedThreads: play_chunk2(t)

SpecShared == InitShared /\ [][NextShared]_vars

\* set_balance called once with any i8, on a driver whose stored balance is
\* any value set_balance can have stored
NextBal ==
    \/ call_set_balance_i8(MainThread)
    \/ set_balance(MainThread)

SpecBal == InitVol /\ [][NextBal]_vars

\* the settings of the driver: set_volume, set_balance, get_volume and
\* set_tone called in any order
NextFields ==
    \/ call_set_volume_u8(MainThread)
    \/ call_set_balance(MainThread)
    \/ call_get_volume(MainThread)
    \/ call_set_tone(MainThread)
    \/ control_mode_on(MainThread)
    \/ control_mode_off(MainThread)
    \/ await_data_request_input(MainThread)
    \/ await_data_request_poll(MainThread)
    \/ write_register(MainThread)
    \/ set_volume(MainThread)
    \/ set_balance(MainThread)
    \/ get_volume(MainThread)
    \/ set_tone(MainThread)

SpecFields == Init /\ [][NextFields]_vars

(***************************************************************************)
(* Properties                                                              *)
(***************************************************************************)
InFrame(t, fn) == \E i \in 1..Len(stack[t]): stack[t][i].fn = fn
Returned(t, fn) == call[t].fn = fn /\ call[t].done
PinFaults == {"UnableToSetCSPin", "UnableToSetDCSPin"}

\* C1: whenever an SPI transaction is transmitted, command-select and
\* data-select are not both asserted (both low).  The levels at the time of
\* the frame are the HAL's: the formula holds of the builds whose HAL
\* releases or resets a line, and not of those whose HAL keeps its level.
C1_NeverBothSelected ==
    lastSpi.kind # "none" => ~(~lastSpi.xcs /\ ~lastSpi.xdcs)

\* C2: every select is paired with a deselect on every exit path: when
\* read_register, write_register or play_chunk2 returns, with success or
\* with an error, the call has released again every select line it
\* asserted (after driving a line low it has driven it high).
C2_SelectReleasedOnReturn ==
    \A t \in Threads:
        (call[t].done /\ call[t].fn \in {"read_register", "write_register", "play_chunk2"})
            => hw[t].held = {}

\* C3 as stated: a register write waits for data-ready twice, once
\* successfully before its frame is put on the bus and once after it.
C3_WaitBeforeAndAfterFrame ==
    /\ lastSpi.kind = "write" => lastSpi.waits >= 1
    /\ \A t \in Threads:
         (rop[t].fn = "write_register" /\ ~InFrame(t, "write_register") /\ rv[t].ok)
             => hw[t].lastBus = "wait_ok"

\* C3 amended: a register write waits for data-ready once: no ready-wait
\* precedes the write frame, and exactly one ready-wait follows the
\* successfully transmitted frame, before command-select is released; a
\* write whose frame fails returns without any ready-wait.
C3_OneWaitAfterFrame ==
    /\ lastSpi.kind = "write" => lastSpi.waits = 0
    /\ \A t \in Threads:
         /\ (Running(t) /\ Top(t).fn = "write_register"
                /\ Top(t).pc \in {"cmo_ret", "spi_ret"}) => rop[t].nwait = 0
         /\ (Running(t) /\ Top(t).fn = "write_register" /\ Top(t).pc = "cmoff_ret")
                => (rop[t].nwait = 1 /\ rop[t].nspi = 1)
         /\ (rop[t].fn = "write_register" /\ ~InFrame(t, "write_register"))
                => /\ rv[t].ok => (rop[t].nwait = 1 /\ rop[t].nspi = 1
                                     /\ hw[t].lastBus = "wait_ok")
                   /\ rv[t] = Err("Spi") => (rop[t].nwait = 0 /\ rop[t].nspi = 1)

\* a register write has returned Ok after its frame and its one ready-wait
C3_Witness ==
    /\ Returned(MainThread, "write_register")
    /\ call[MainThread].res.ok
    /\ lastSpi.kind = "write" /\ lastSpi.ok /\ lastSpi.waits = 0
    /\ rop[MainThread].nwait = 1

\* C4: in play_chunk2 every chunk's SPI write directly follows a ready-wait
\* that returned success, and once a ready-wait has timed out no chunk is
\* written any more and the call returns the timeout error.
C4_ChunkAfterReadyWait ==
    /\ (lastSpi.kind = "data" /\ lastSpi.top = "play_chunk2")
           => lastSpi.prevBus = "wait_ok"
    /\ \A t \in Threads:
         (call[t].fn = "play_chunk2" /\ "timeout" \in hw[t].faults)
             => /\ hw[t].lastBus = "wait_timeout"
                /\ rv[t] = Err("DataRequestTimeout")
                /\ call[t].done => call[t].res = Err("DataRequestTimeout")

\* the ready-wait before the second chunk timed out: one chunk was written,
\* after a successful ready-wait, and the call returned the timeout
C4_Witness ==
    /\ Returned(MainThread, "play_chunk2")
    /\ call[MainThread].res = Err("DataRequestTimeout")
    /\ Len(hw[MainThread].chunks) = 1
    /\ lastSpi.kind = "data" /\ lastSpi.prevBus = "wait_ok"
    /\ rop[MainThread].nwait = 1

CeilDiv(a, b) == (a + b - 1) \div b

\* chunk k (1-based) of a buffer of length L cut in chunks of C
ExpectedChunk(L, C, k) ==
    LET n == IF k < CeilDiv(L, C) \/ L % C = 0 THEN C ELSE L % C
    IN [j \in 1..n |-> (k - 1) * C + j]
ExpectedChunks(L, C) == [k \in 1..CeilDiv(L, C) |-> ExpectedChunk(L, C, k)]

\* C5: with no hardware fault play_chunk2 on a buffer of length L with chunk
\* size C >= 1 returns Ok having issued exactly ceil(L/C) chunk writes, in
\* buffer order, each of length C except a final one of length L mod C when
\* that is not zero.
C5_ChunkSequence ==
    \A t \in Threads:
        (Returned(t, "play_chunk2") /\ hw[t].faults = {} /\ call[t].a.chunk_size >= 1)
            => /\ call[t].res = Ok(0)
               /\ hw[t].chunks = ExpectedChunks(Len(call[t].a.data), call[t].a.chunk_size)

\* a buffer of 4 bytes sent in chunks of 3: a full chunk and the remainder
C5_Witness ==
    /\ Returned(MainThread, "play_chunk2")
    /\ hw[MainThread].faults = {}
    /\ Len(call[MainThread].a.data) = 4
    /\ call[MainThread].a.chunk_size = 3
    /\ hw[MainThread].chunks = << <<1, 2, 3>>, <<4>> >>

\* C6: every chunk play_chunk2 writes is transmitted while data mode is
\* active: data-select asserted (low) and command-select released (high).
C6_ChunksInDataMode ==
    (lastSpi.kind = "data" /\ lastSpi.top = "play_chunk2")
        => (~lastSpi.xdcs /\ lastSpi.xcs)

\* C7: await_data_request returns success at the first poll that reads the
\* line ready, with no poll or sleep after it, and returns the timeout
\* error exactly when it polled and every poll read not-ready.
C7_AwaitFirstReady ==
    \A t \in Threads:
        /\ aw[t].highs >= 1 => (aw[t].highs = 1 /\ aw[t].done /\ aw[t].res = Ok(0)
                                  /\ ~InFrame(t, "await_data_request"))
        /\ Returned(t, "await_data_request")
             => /\ call[t].res.ok => (aw[t].highs = 1 /\ aw[t].polls = aw[t].sleeps + 1)
                /\ call[t].res = Err("DataRequestTimeout")
                     <=> (aw[t].polls > 0 /\ aw[t].highs = 0)

\* the line read ready at the third poll: success after two sleeps
C7_Witness ==
    /\ Returned(MainThread, "await_data_request")
    /\ call[MainThread].res = Ok(0)
    /\ aw[MainThread].polls = 3
    /\ aw[MainThread].sleeps = 2

\* C8: one call of await_data_request samples the data-ready line at most
\* 2000 times and sleeps at most 2000 times.
C8_AtMost2000Polls ==
    \A t \in Threads: aw[t].polls <= 2000 /\ aw[t].sleeps <= 2000

\* C9: in read_register and write_register an SPI failure is returned as
\* DSPError::Spi and a data-ready timeout as DSPError::DataRequestTimeout,
\* nothing is done to the hardware after either, the call issues at most
\* one SPI transaction, and the stored volume and balance are unchanged.
C9_RegisterFaultsAbort ==
    \A t \in Threads:
        call[t].fn \in {"read_register", "write_register"}
            => /\ hw[t].nspi <= 1
               /\ current_volume = call[t].vol0
               /\ current_balance = call[t].bal0
               /\ "spi" \in hw[t].faults
                    => /\ hw[t].lastHw = "spi_fail"
                       /\ rv[t] = Err("Spi")
                       /\ call[t].done => call[t].res = Err("Spi")
               /\ "timeout" \in hw[t].faults
                    => /\ hw[t].lastHw = "wait_timeout"
                       /\ rv[t] = Err("DataRequestTimeout")
                       /\ call[t].done => call[t].res = Err("DataRequestTimeout")

\* a register read whose SPI transaction failed has returned DSPError::Spi
C9_Witness ==
    /\ Returned(MainThread, "read_register")
    /\ call[MainThread].res = Err("Spi")
    /\ hw[MainThread].nspi = 1
    /\ current_volume # 50

\* C10: whenever driving a select line fails in a register or streaming
\* call, the call returns a pin fault and issues no SPI transaction after
\* the failure.
C10_PinFaultAborts ==
    \A t \in Threads:
        (call[t].done /\ "pin" \in hw[t].faults
            /\ call[t].fn \in {"read_register", "write_register",
                               "play_chunk2", "sdi_send_buffer"})
            => /\ ~call[t].res.ok
               /\ call[t].res.err \in PinFaults
               /\ ~hw[t].spiAfterPinFault

\* the operations the application calls
PublicOps == {"begin", "is_chip_connected", "get_chip_version", "set_volume",
              "sdi_send_buffer", "play_chunk2", "stop_song", "switch_to_mp3_mode"}

\* C11: no hardware fault terminates the process: whatever SPI failures,
\* pin faults and ready-wait timeouts occur during a public operation, the
\* operation never reaches a panic.
C11_NoFaultPanics ==
    \A t \in Threads: call[t].fn \in PublicOps => ~panicked

C13_FailFastWhenNotReady ==
    \A t \in Threads:
        (Returned(t, "test_comm") /\ hw[t].tc # <<>> /\ hw[t].tc[1].low)
            => /\ call[t].res = Ok(0)
               /\ ~hw[t].tc[1].pass
               /\ rop[t].fn = "none"
               /\ hw[t].nspi = 0
               /\ hw[t].lastHw = "none"
               /\ lastSpi = NoSpi

\* the self-test found data-ready low and has returned fail
C13_Witness ==
    /\ Returned(MainThread, "test_comm")
    /\ hw[MainThread].tc = <<[low |-> TRUE, cnt |-> 0, pass |-> FALSE]>>
    /\ call[MainThread].res = Ok(0)
    /\ hw[MainThread].nspi = 0

\* C14: in the sweep of the self-test the count of bad steps never exceeds
\* 20, and while a step is being written or read back fewer than 20 bad
\* steps have been counted.
C14_AtMost20BadSteps ==
    \A t \in Threads:
        /\ \A k \in 1..Len(stack[t]):
              stack[t][k].fn = "test_comm"
                  => /\ stack[t][k].a.cnt <= 20
                     /\ stack[t][k].pc \in {"wr_ret", "r1_ret", "r2_ret"}
                          => stack[t][k].a.cnt < 20
        /\ \A k \in 1..Len(hw[t].tc): hw[t].tc[k].cnt <= 20

\* the self-test has counted 20 bad steps and has returned fail
C14_Witness ==
    /\ Returned(MainThread, "test_comm")
    /\ hw[MainThread].tc = <<[low |-> FALSE, cnt |-> 20, pass |-> FALSE]>>
    /\ call[MainThread].res = Ok(0)

\* C15: when the slow self-test fails, begin takes no step of the fast
\* path (no write of the audio-rate, clock or mode register, no fast
\* self-test, no ready-wait, no end-fill-byte readback): the only register
\* the call has touched is the volume register of the self-test, and begin
\* returns Ok.
C15_SlowFailSkipsFastPath ==
    \A t \in Threads:
        (call[t].fn = "begin" /\ hw[t].tc # <<>> /\ ~hw[t].tc[1].pass)
            => /\ hw[t].path = {}
               /\ Len(hw[t].tc) = 1
               /\ (lastSpi.kind # "none" /\ lastSpi.by = t) => lastSpi.frame[2] = SCI_VOL
               /\ \/ Len(stack[t]) = 1 /\ Top(t).pc = "slow_ret"
                  \/ call[t].done /\ call[t].res = Ok(0)

\* the slow self-test counted 20 bad steps and begin has returned Ok
C15_Witness ==
    /\ Returned(MainThread, "begin")
    /\ hw[MainThread].tc = <<[low |-> FALSE, cnt |-> 20, pass |-> FALSE]>>
    /\ call[MainThread].res = Ok(0)
    /\ hw[MainThread].path = {}

\* C16: during begin every SPI transaction issued before the write of the
\* clock multiplier register (SCI_CLOCKF) has completed goes over the slow
\* bus.
C16_SlowBusUntilClockRaised ==
    \A t \in Threads:
        (call[t].fn = "begin" /\ lastSpi.kind # "none" /\ lastSpi.by = t
            /\ "clockf_done" \notin hw[t].path)
            => lastSpi.bus = "low_spi"

\* C17: when the slow self-test has passed and the fast self-test has
\* failed, begin goes on to the final ready-wait, and after a successful
\* wait to the end-fill-byte readback; it returns Ok when they and the
\* register dump succeed, and an error only for a hardware fault of one of
\* them.
C17_FastFailNotFatal ==
    \A t \in Threads:
        (call[t].fn = "begin" /\ Len(hw[t].tc) = 2 /\ ~hw[t].tc[2].pass)
            => /\ \/ "wait" \in hw[t].path
                  \/ Len(stack[t]) = 1 /\ Top(t).pc = "fast_ret"
               /\ call[t].done
                    => /\ call[t].res.ok => {"efb", "details"} \subseteq hw[t].path
                       /\ ~call[t].res.ok
                            => /\ hw[t].lastHw \in {"spi_fail", "wait_timeout", "wait_nopin"}
                                    \/ call[t].res.err \in PinFaults
                               /\ "efb" \notin hw[t].path
                                    => call[t].res.err \in {"DataRequestTimeout",
                                                            "UnableToGetDREQPin"}

\* the fast self-test counted 20 bad steps; begin went on to the ready-wait,
\* the readback and the register dump and has returned Ok
C17_Witness ==
    /\ Returned(MainThread, "begin")
    /\ Len(hw[MainThread].tc) = 2
    /\ hw[MainThread].tc[1].pass
    /\ hw[MainThread].tc[2] = [low |-> FALSE, cnt |-> 20, pass |-> FALSE]
    /\ call[MainThread].res = Ok(0)
    /\ {"wait", "efb", "details"} \subseteq hw[MainThread].path

\* C18: after signalling cancel, stop_song reads the mode register at most
\* 200 times: whenever a read of the mode register has returned to the
\* poll loop, it is at most the 200th (the loop index, which counts the
\* reads made before it, is below 200).
C18_AtMost200ModeReads ==
    \A t \in Threads:
        \A k \in 1..Len(stack[t]):
            (stack[t][k].fn = "stop_song" /\ stack[t][k].pc = "mode_ret")
                => stack[t][k].a.i + 1 <= 200

\* byte is an integer nearest to (100 - in) / 100 * 0xFE
NearestToScaled(byte, in) ==
    LET d == 100 * byte - (100 - in) * 254
    IN -50 <= d /\ d <= 50

\* C19: for a per-channel input in 0..100 the byte set_volume sends for
\* that channel is (100 - in) / 100 * 0xFE rounded to nearest.
C19_ChannelByteRounded ==
    \A t \in Threads:
        (call[t].fn = "set_volume" /\ lastSpi.kind = "write" /\ lastSpi.by = t)
            => LET in == channel_inputs(call[t].a.vol, call[t].bal0) IN
               /\ in[1] \in 0..100 => NearestToScaled(lastSpi.frame[3], in[1])
               /\ in[2] \in 0..100 => NearestToScaled(lastSpi.frame[4], in[2])

\* the byte of a channel whose input is x, for x in 0..200, in closed form
ExpectedByte(x) == (254 - (254 * x) \div 100) % 256

\* the inputs of the left and right channel for volume v and balance b
ExpectedInputs(v, b) ==
    IF b < 0 THEN <<v, v - b>>
    ELSE IF b > 0 THEN <<IF v > b THEN v - b ELSE 0, v>>
    ELSE <<v, v>>

\* C20: for a volume v in 0..100 and a stored balance b in -100..100 the
\* frame set_volume writes to the volume register is a function of (v, b)
\* alone, and its left (high) and right (low) bytes lie in 0x00..0xFE.
C20_VolumeWordInRange ==
    \A t \in Threads:
        (call[t].fn = "set_volume" /\ call[t].a.vol \in 0..100
            /\ call[t].bal0 \in -100..100
            /\ lastSpi.kind = "write" /\ lastSpi.by = t)
            => LET in == ExpectedInputs(call[t].a.vol, call[t].bal0) IN
               /\ lastSpi.frame = <<2, SCI_VOL, ExpectedByte(in[1]), ExpectedByte(in[2])>>
               /\ lastSpi.frame[3] \in 0..254
               /\ lastSpi.frame[4] \in 0..254

\* volume 50 with the balance at -100: the right channel input is 150, the
\* frame carries 0x7F for the left and 0x81 for the right channel
C20_Witness ==
    /\ Returned(MainThread, "set_volume")
    /\ call[MainThread].a.vol = 50
    /\ call[MainThread].bal0 = -100
    /\ call[MainThread].res.ok
    /\ lastSpi.frame = <<2, SCI_VOL, 127, 129>>

\* C21: with the balance at 0, set_volume(100) writes 0x0000 to the volume
\* register and set_volume(0) writes 0xFEFE: the value handed to
\* write_register is left * 256 + right and the frame carries the left
\* byte before the right byte.
C21_VolumeEndPoints ==
    \A t \in Threads:
        (call[t].fn = "set_volume" /\ call[t].bal0 = 0)
            => /\ \A k \in 1..Len(stack[t]):
                    stack[t][k].fn = "write_register"
                        => /\ stack[t][k].a.reg = SCI_VOL
                           /\ call[t].a.vol = 100 => stack[t][k].a.value = 0
                           /\ call[t].a.vol = 0 => stack[t][k].a.value = 65278
               /\ (lastSpi.kind = "write" /\ lastSpi.by = t)
                    => /\ call[t].a.vol = 100 => lastSpi.frame = <<2, SCI_VOL, 0, 0>>
                       /\ call[t].a.vol = 0 => lastSpi.frame = <<2, SCI_VOL, 254, 254>>

\* set_volume(0) with the balance at 0 has written 0xFEFE and returned
C21_Witness ==
    /\ Returned(MainThread, "set_volume")
    /\ call[MainThread].a.vol = 0
    /\ call[MainThread].bal0 = 0
    /\ call[MainThread].res.ok
    /\ lastSpi.frame = <<2, SCI_VOL, 254, 254>>

\* C22: with volume 50 the left byte written is strictly greater than the
\* right byte when the balance is 100, and the right byte is strictly
\* greater than the left byte when the balance is -100.
C22_BalanceSkewsChannels ==
    \A t \in Threads:
        (call[t].fn = "set_volume" /\ call[t].a.vol = 50
            /\ lastSpi.kind = "write" /\ lastSpi.by = t)
            => /\ call[t].bal0 = 100 => lastSpi.frame[3] > lastSpi.frame[4]
               /\ call[t].bal0 = -100 => lastSpi.frame[4] > lastSpi.frame[3]

\* volume 50 with the balance at 100: left 0xFE, right 0x7F
C22_Witness ==
    /\ Returned(MainThread, "set_volume")
    /\ call[MainThread].a.vol = 50
    /\ call[MainThread].bal0 = 100
    /\ call[MainThread].res.ok
    /\ lastSpi.frame = <<2, SCI_VOL, 254, 127>>

\* the per-channel inputs with the skew saturating inside 0..100
SaturatedInputs(v, b) ==
    IF b < 0 THEN <<v, IF v - b > 100 THEN 100 ELSE v - b>>
    ELSE IF b > 0 THEN <<IF v - b < 0 THEN 0 ELSE v - b, v>>
    ELSE <<v, v>>

\* C23: for a volume in 0..100 and a stored balance in -100..100 the
\* per-channel inputs are min(100, volume + |balance|) on the right for a
\* negative balance and max(0, volume - balance) on the left for a positive
\* one; both stay in 0..100 and the bytes written are the scaled inputs
\* with no wrap-around of the conversion to a byte.
C23_SkewSaturatesInDomain ==
    \A t \in Threads:
        (call[t].fn = "set_volume" /\ call[t].a.vol \in 0..100
            /\ call[t].bal0 \in -100..100
            /\ lastSpi.kind = "write" /\ lastSpi.by = t)
            => LET in  == channel_inputs(call[t].a.vol, call[t].bal0)
                   sat == SaturatedInputs(call[t].a.vol, call[t].bal0) IN
               /\ in = sat
               /\ in[1] \in 0..100 /\ in[2] \in 0..100
               /\ lastSpi.frame[3] = map(sat[1], 0, 100, 254, 0)
               /\ lastSpi.frame[4] = map(sat[2], 0, 100, 254, 0)

\* C24: set_balance stores its argument clamped to -100..100: 100 for an
\* argument above 100, -100 for one below -100, the argument itself
\* otherwise.
C24_BalanceClamped ==
    \A t \in Threads:
        Returned(t, "set_balance")
            => LET b == call[t].a.balance IN
               /\ b > 100 => current_balance = 100
               /\ b < -100 => current_balance = -100
               /\ (-100 <= b /\ b <= 100) => current_balance = b

\* set_balance(-128) on a driver whose balance was 100 has stored -100
C24_Witness ==
    /\ Returned(MainThread, "set_balance")
    /\ call[MainThread].a.balance = -128
    /\ call[MainThread].bal0 = 100
    /\ current_balance = -100

\* C25: whatever set_volume and set_balance calls were made, the stored
\* volume, and so the value get_volume returns, is in 0..100, and the
\* stored balance is in -100..100.
C25_FieldsInRange ==
    /\ current_volume \in 0..100
    /\ current_balance \in -100..100
    /\ \A t \in Threads:
         Returned(t, "get_volume") => call[t].res.val \in 0..100

\* C26: is_chip_connected returns false exactly when the status register
\* read 0x0000 or 0xFFFF: the call that has read the status s returns
\* false if s is one of the two and true otherwise, and the test it applies
\* separates these two values from every other 16-bit value.
C26_ConnectedUnlessAllZerosOrOnes ==
    [][\A t \in Threads:
        (At(t, "is_chip_connected", "rd_ret") /\ rv[t].ok /\ stack'[t] # stack[t])
            => /\ call'[t].done
               /\ call'[t].res = Ok(Bool(rv[t].val \notin {0, 65535}))
               /\ \A s \in 0..65535: chip_connected(s) <=> s \notin {0, 65535}]_vars

\* is_chip_connected has returned false
C26_Witness ==
    /\ Returned(MainThread, "is_chip_connected")
    /\ call[MainThread].res = Ok(0)
    /\ lastSpi.ok
    /\ lastSpi.frame = <<3, SCI_STATUS>>

\* the register writes of switch_to_mp3_mode: pointer 0xC017, data 3,
\* pointer 0xC019, data 0, then the mode register with bits 11 and 2 set
Mp3ModeWrites ==
    << <<2, SCI_WRAMADDR, 192, 23>>, <<2, SCI_WRAM, 0, 3>>,
       <<2, SCI_WRAMADDR, 192, 25>>, <<2, SCI_WRAM, 0, 0>>,
       <<2, SCI_MODE, 8, 4>> >>

Mp3ModePos(frame) == CHOOSE i \in 1..Len(Mp3ModeWrites): Mp3ModeWrites[i] = frame

\* C27: the frames switch_to_mp3_mode puts on the bus are, in this order,
\* the scratch write of the GPIO direction register (pointer 0xC017, data
\* 3), the scratch write of the GPIO output register (pointer 0xC019, data
\* 0) and the mode-register write with the reset bit (frames of a scratch
\* write that failed are missing, none is out of order); the mode register
\* is written only after both scratch writes have returned; the call ends
\* with the ready-wait of the soft reset; without a fault all five frames
\* are sent and that wait succeeds.
C27_Mp3ModeOrder ==
    \A t \in Threads:
        call[t].fn = "switch_to_mp3_mode"
            => LET w == hw[t].writes IN
               /\ \A i \in 1..Len(w): \E j \in 1..Len(Mp3ModeWrites): w[i] = Mp3ModeWrites[j]
               /\ \A i, j \in 1..Len(w): i < j => Mp3ModePos(w[i]) < Mp3ModePos(w[j])
               /\ \A k \in 1..Len(stack[t]):
                    (stack[t][k].fn = "write_register" /\ stack[t][k].a.reg = SCI_MODE)
                        => /\ stack[t][1].pc = "reset_ret"
                           /\ stack[t][k].a.value = 2052
               /\ (\E i \in 1..Len(w): w[i][2] = SCI_MODE)
                    => (call[t].done \/ stack[t][1].pc = "reset_ret")
               /\ call[t].done
                    => /\ hw[t].lastHw \in {"wait_ok", "wait_timeout", "wait_nopin"}
                       /\ call[t].res = Ok(0)
               /\ (call[t].done /\ hw[t].faults = {})
                    => /\ w = Mp3ModeWrites
                       /\ hw[t].lastHw = "wait_ok"

\* switch_to_mp3_mode has returned after its five register writes
C27_Witness ==
    /\ Returned(MainThread, "switch_to_mp3_mode")
    /\ hw[MainThread].faults = {}
    /\ hw[MainThread].writes = Mp3ModeWrites
    /\ lastSpi.frame = <<2, SCI_MODE, 8, 4>>

\* where a read_register call stands: its steps so far, in order
ReadRegisterInOrder(t) ==
    LET NoPinFault == "pin" \notin hw[t].faults IN
    /\ \A k \in 1..Len(stack[t]):
         /\ (stack[t][k].fn = "control_mode_on" /\ stack[t][k].pc = "set_dcs")
                => (hw[t].lastHw = "none" /\ lastSpi.kind = "none")
         /\ (stack[t][k].fn = "control_mode_on" /\ stack[t][k].pc = "set_cs")
                => /\ hw[t].lastHw = "pin" /\ lastSpi.kind = "none"
                   /\ NoPinFault => xdcs_pin
         /\ stack[t][k].fn = "await_data_request"
                => (hw[t].lastHw = "spi_ok" /\ hw[t].nspi = 1 /\ rop[t].nwait = 0)
         /\ stack[t][k].fn = "control_mode_off"
                => (hw[t].lastHw = "wait_ok" /\ hw[t].nspi = 1 /\ rop[t].nwait = 1)
    /\ lastSpi.kind # "none"
         => /\ lastSpi.kind = "read" /\ lastSpi.bus = "spi" /\ lastSpi.by = t
            /\ lastSpi.frame = <<3, call[t].a.address>>
            /\ lastSpi.nread = 2
            /\ lastSpi.prevBus = "none" /\ lastSpi.waits = 0
            /\ NoPinFault => ("xcs" \in hw[t].sel /\ lastSpi.xdcs)
    /\ (call[t].done /\ call[t].res.ok)
         => /\ hw[t].nspi = 1 /\ lastSpi.ok
            /\ rop[t].nwait = 1
            /\ hw[t].lastHw = "pin"
            /\ NoPinFault => (xcs_pin /\ xdcs_pin)

\* C28: a read_register call goes through its steps in this order:
\* data-select driven high, command-select driven low, one SPI transaction on
\* the fast bus that writes [0x03, address] and reads 2 bytes, one
\* ready-wait, command-select released; a call that returns Ok has done
\* all of them, and the value it returns is 256 * first byte + second byte
\* of the bytes read.
C28_ReadRegisterSequence ==
    [][\A t \in Threads:
        /\ call'[t].fn = "read_register" => ReadRegisterInOrder(t)'
        /\ (At(t, "read_register", "cmoff_ret") /\ rv[t].ok /\ stack'[t] # stack[t])
              => /\ call'[t].fn = "read_register" => call'[t].done
                 /\ rv'[t] = Ok(256 * Top(t).a.buf[1] + Top(t).a.buf[2])]_vars

\* a register read without any fault has returned 0x012C for the bytes
\* 0x01, 0x2C
C28_Witness ==
    /\ Returned(MainThread, "read_register")
    /\ call[MainThread].res = Ok(300)
    /\ hw[MainThread].faults = {}
    /\ lastSpi.kind = "read" /\ ~lastSpi.xcs /\ lastSpi.xdcs
    /\ xcs_pin

\* C29: write_register(speed, reg, value) issues one SPI transaction, a
\* write of the 4 bytes [0x02, reg, value >> 8, value & 0xFF] with nothing
\* read back, on the fast bus if speed is fast and on the slow bus if not:
\* no second transaction, none on the other bus, and a call that returns
\* Ok has issued exactly that one.
C29_WriteRegisterOneFrame ==
    \A t \in Threads:
        call[t].fn = "write_register"
            => LET a == call[t].a IN
               /\ hw[t].nspi <= 1
               /\ Len(hw[t].writes) = hw[t].nspi
               /\ lastSpi.kind # "none"
                    => /\ lastSpi.kind = "write" /\ lastSpi.by = t
                       /\ lastSpi.frame = <<2, a.reg, a.value \div 256, a.value % 256>>
                       /\ hw[t].writes = <<lastSpi.frame>>
                       /\ lastSpi.nread = 0
                       /\ a.is_high_speed => lastSpi.bus = "spi"
                       /\ ~a.is_high_speed => lastSpi.bus = "low_spi"
               /\ (call[t].done /\ call[t].res.ok)
                    => (hw[t].nspi = 1 /\ lastSpi.ok)

\* a slow write of 0x1234 has returned Ok: its frame went out on the slow
\* bus with 0x12 before 0x34
C29_Witness ==
    /\ Returned(MainThread, "write_register")
    /\ call[MainThread].res.ok
    /\ ~call[MainThread].a.is_high_speed
    /\ call[MainThread].a.value = 4660
    /\ lastSpi.bus = "low_spi"
    /\ lastSpi.frame = <<2, call[MainThread].a.reg, 18, 52>>

\* C30: a self-test that ends with fewer than 20 bad steps counted has
\* written and twice read back every step value 0, d, 2d, .. below 0xFFFF:
\* when it returns from its sweep, the step value that would come next is
\* not below 0xFFFF; and it returns pass only if it counted no bad step.
C30_SweepCoversRange ==
    [][\A t \in Threads:
        (/\ Running(t) /\ ~panicked
         /\ Top(t).fn = "test_comm" /\ Top(t).pc \in {"loop", "r2_ret"}
         /\ Len(stack'[t]) = Len(stack[t]) - 1
         /\ Top(t).a.cnt < MAX_BAD_STEPS)
            => /\ (IF Top(t).pc = "loop" THEN Top(t).a.i
                                          ELSE Top(t).a.i + Top(t).a.delta) >= SWEEP_END
               /\ rv'[t] = Ok(1) => Top(t).a.cnt = 0]_vars

\* C35: set_volume(v) stores v before its register write starts and keeps
\* it whatever becomes of the write: from the start of the write to the
\* return of the call, failed or not, the stored volume is v; and
\* get_volume returns the stored volume as it found it.
C35_VolumeStoredBeforeWrite ==
    \A t \in Threads:
        /\ (call[t].fn = "set_volume"
                /\ (InFrame(t, "write_register") \/ call[t].done))
              => current_volume = call[t].a.vol
        /\ Returned(t, "get_volume")
              => (call[t].res = Ok(call[t].vol0) /\ current_volume = call[t].vol0)

\* set_volume(101) on a driver at volume 50: the SPI write failed, the
\* call returned the error and the stored volume is 101
C35_Witness ==
    /\ Returned(MainThread, "set_volume")
    /\ call[MainThread].a.vol = 101
    /\ call[MainThread].vol0 = 50
    /\ call[MainThread].res = Err("Spi")
    /\ ~lastSpi.ok
    /\ current_volume = 101

\* C36: set_balance drives no pin, issues no SPI transaction, waits for
\* nothing and leaves the stored volume as it was; set_volume leaves the
\* stored balance as it was and writes the volume word of the balance
\* stored at its start.
C36_BalanceTouchesNoHardware ==
    \A t \in Threads:
        /\ call[t].fn = "set_balance"
              => /\ hw[t] = HwInit
                 /\ lastSpi = NoSpi
                 /\ xcs_pin = call[t].xcs0 /\ xdcs_pin = call[t].xdcs0
                 /\ current_volume = call[t].vol0
                 /\ call[t].done => call[t].res = Ok(0)
        /\ call[t].fn = "set_volume"
              => /\ current_balance = call[t].bal0
                 /\ lastSpi.kind # "none"
                      => lastSpi.frame =
                           write_frame(SCI_VOL, volume_word(call[t].a.vol, call[t].bal0))

\* set_balance(100) has returned on a driver whose volume had been set to
\* 100: the balance is stored, nothing was done to the hardware
C36_Witness ==
    /\ Returned(MainThread, "set_balance")
    /\ call[MainThread].a.balance = 100
    /\ call[MainThread].bal0 = 0
    /\ current_balance = 100
    /\ current_volume = 100
    /\ hw[MainThread] = HwInit

\* C32: every filler write of sdi_send_fillers is transmitted while data
\* mode is active: data-select asserted (low) and command-select released
\* (high).
C32_FillersInDataMode ==
    lastSpi.kind = "fill" => (~lastSpi.xdcs /\ lastSpi.xcs)

\* the step of stop_song a call is in, and what that step may have on top
StopSongInOrder(t) ==
    LET st    == stack[t]
        phase == st[1].pc
        inner == IF Len(st) >= 2 THEN st[2] ELSE st[1]
        ModeFrame == lastSpi.kind \in {"read", "write"} /\ lastSpi.frame[2] = SCI_MODE
    IN
    \* the first large burst: nothing has touched the mode register yet
    /\ phase = "flush_ret"
         => /\ st[1].a.i = 0
            /\ Len(st) >= 2 => inner.fn = "sdi_send_fillers"
            /\ inner.pc = "start" => (inner.a.length = FlushLen /\ lastSpi.kind = "none")
            /\ ~ModeFrame
    \* the cancel write comes once, right after that burst's last filler
    /\ (phase = "loop" /\ Len(st) >= 2)
         => /\ inner.fn = "write_register" /\ st[1].a.i = 0
            /\ inner.a.reg = SCI_MODE /\ inner.a.value = 2056
            /\ inner.pc = "start" => lastSpi.kind = "fill"
            /\ ModeFrame => lastSpi.frame = <<2, SCI_MODE, 8, 8>>
    \* an iteration: a small burst ..
    /\ (phase = "burst_ret" /\ Len(st) >= 2)
         => /\ inner.fn = "sdi_send_fillers"
            /\ inner.pc = "start"
                 => /\ inner.a.length = BurstLen
                    \* (a cancel write that failed before its frame leaves
                    \* the last filler as the last transaction)
                    /\ st[1].a.i = 0 => (lastSpi.kind = "fill"
                                           \/ lastSpi.frame = <<2, SCI_MODE, 8, 8>>)
                    /\ st[1].a.i > 0 => lastSpi.frame = <<3, SCI_MODE>>
    \* .. then one read of the mode register, right after its last filler
    /\ (phase = "mode_ret" /\ Len(st) >= 2)
         => /\ inner.fn = "read_register" /\ inner.a.address = SCI_MODE
            /\ inner.pc = "start" => lastSpi.kind = "fill"
    \* after the read that found the cancel bit clear: one large burst and
    \* no read of the mode register
    /\ (phase = "end_ret" /\ st[1].a.i = 0)
         => /\ inner.pc = "start" =>
                  (inner.fn = "sdi_send_fillers" /\ inner.a.length = FlushLen
                     /\ lastSpi.kind = "read" /\ lastSpi.frame = <<3, SCI_MODE>>)
            /\ \A k \in 1..Len(st):
                 st[k].fn = "read_register" => st[k].a.address = SCI_WRAM
            /\ Len(st) = 1 => lastSpi.kind = "fill"

\* C31: stop_song orders its steps as: the large filler burst, the write of
\* the mode register with the cancel bit (bit 3), then per iteration the
\* small filler burst followed by one read of the mode register; the first
\* read that finds the cancel bit clear is followed by one more large burst
\* and the return, with no read of the mode register after it; a read that
\* finds the bit set is followed by the next iteration.
C31_StopSongSequence ==
    [][\A t \in Threads:
        /\ (call'[t].fn = "stop_song" /\ stack'[t] # <<>>) => StopSongInOrder(t)'
        /\ (At(t, "stop_song", "mode_ret") /\ rv[t].ok /\ stack'[t] # stack[t])
              => IF (rv[t].val \div 8) % 2 = 0
                   THEN /\ stack'[t][1].pc = "end_ret" /\ stack'[t][1].a.i = 0
                        /\ Len(stack'[t]) = 2
                   ELSE /\ stack'[t][1].pc = "loop"
                        /\ stack'[t][1].a.i = Top(t).a.i + 1
                        /\ Len(stack'[t]) = 1
        /\ (At(t, "stop_song", "end_ret") /\ stack'[t] # stack[t])
              => call'[t].done]_vars

\* stop_song has returned after a read of the mode register that found the
\* cancel bit clear and the large burst that follows it
C31_Witness ==
    /\ Returned(MainThread, "stop_song")
    /\ hw[MainThread].faults = {}
    /\ lastSpi.kind = "fill"
    /\ ~panicked

\* C34: play_chunk2 terminates for every buffer and every chunk size when
\* every ready-wait and SPI write succeeds: in every run of a call either a
\* hardware fault occurs or the call returns.
C34_PlayChunk2Terminates ==
    <>(hw[MainThread].faults # {} \/ call[MainThread].done)

\* C33: when the calls of the two threads are serialized, each holding the
\* driver for the whole call, every register frame is transmitted in
\* command mode: command-select asserted (low) and data-select released
\* (high).
C33_SerializedCallsKeepMode ==
    lastSpi.kind \in {"read", "write"} => (~lastSpi.xcs /\ lastSpi.xdcs)

====
